---- MODULE Spec2Model ----
(***************************************************************************)
(* Model of rate-limit-sleep.py: the hook that detects a rate-limit        *)
(* notice, resolves the reset time in the notice's timezone, sleeps until  *)
(* five minutes after it and tells the caller to continue; and the manual  *)
(* parsers of a duration or a clock time.                                  *)
(*                                                                         *)
(* Text is a sequence of one-character strings.  Time is counted in whole  *)
(* seconds since 2026-01-01T00:00:00 UTC, with the sub-second part of a    *)
(* clock reading kept apart in microseconds.  A datetime is the record     *)
(* [wall, us, fold, tz]: the naive wall-clock reading (seconds since       *)
(* 2026-01-01T00:00:00 on that wall clock), its microseconds, the fold     *)
(* flag and the tzinfo, as Python's aware datetime keeps them.             *)
(***************************************************************************)
EXTENDS Integers, Sequences, FiniteSets, TLC

VARIABLES
    mode,           \* "hook": a run of hook_mode; "call": a direct call of a parser
    pc,             \* position of the run
    clock,          \* the real time, [s |-> seconds UTC, us |-> microseconds]
    sysZone,        \* the zone the system clock is set to (name of a zone)
    stdin,          \* hook mode: the content of standard input
    transcript,     \* hook mode: the transcript file, [exists, lines]
    message,        \* hook mode: the combined text searched
    time_str,       \* hook mode: group 1 of the extraction match
    tz_str,         \* hook mode: group 2 of the extraction match
    reset_time,     \* hook mode: the datetime parse_reset_time returned
    wake_time,      \* hook mode: reset_time + buffer
    now,            \* hook mode: the datetime read when the wait is computed
    sleep_seconds,  \* hook mode: the wait, a timedelta (see TimeDelta)
    slept,          \* the sleeps started so far, a sequence of waits
    stdout,         \* the lines printed to standard output
    logs,           \* the lines appended to the log file (their fixed text)
    ticks,          \* the number of Tick steps taken
    call,           \* direct call: the function called and its arguments
    ret,            \* direct call: what the call returned or raised
    stderr,         \* the lines printed to standard error
    exit            \* <<>> while the process runs, then <<its exit status>>

vars == <<mode, pc, clock, sysZone, stdin, transcript, message, time_str, tz_str,
          reset_time, wake_time, now, sleep_seconds, slept, stdout, logs, ticks,
          call, ret, stderr, exit>>

----------------------------------------------------------------------------
(* Characters and strings                                                  *)

Digits == <<"0", "1", "2", "3", "4", "5", "6", "7", "8", "9">>

UpperCase == <<"A", "B", "C", "D", "E", "F", "G", "H", "I", "J", "K", "L", "M",
               "N", "O", "P", "Q", "R", "S", "T", "U", "V", "W", "X", "Y", "Z">>

LowerCase == <<"a", "b", "c", "d", "e", "f", "g", "h", "i", "j", "k", "l", "m",
               "n", "o", "p", "q", "r", "s", "t", "u", "v", "w", "x", "y", "z">>

\* \s of the re module, over the characters the model's texts use
Whitespace == {" ", "\t", "\n"}

DigitSet == {Digits[i] : i \in 1..10}

IsDigit(c) == c \in DigitSet

\* int() of one decimal digit
DigitValue(c) == (CHOOSE i \in 1..10 : Digits[i] = c) - 1

UpperSet == {UpperCase[i] : i \in 1..26}

LowerOf == [c \in UpperSet |-> LowerCase[CHOOSE i \in 1..26 : UpperCase[i] = c]]

\* str.lower() of one character
LowerChar(c) == IF c \in UpperSet THEN LowerOf[c] ELSE c

\* str.lower()
Lower(s) == [i \in 1..Len(s) |-> LowerChar(s[i])]

\* str.strip(): s without the whitespace at its ends
Strip(s) ==
    LET keep == {i \in 1..Len(s) : s[i] \notin Whitespace}
        first == CHOOSE i \in keep : \A j \in keep : i <= j
        last == CHOOSE i \in keep : \A j \in keep : j <= i
    IN  IF keep = {} THEN <<>> ELSE SubSeq(s, first, last)

\* ReplaceSpaces that replaces nothing
ReplaceSpacesNot(s) == s

\* str.replace(" ", "_")
ReplaceSpaces(s) == [i \in 1..Len(s) |-> IF s[i] = " " THEN "_" ELSE s[i]]

\* int() of a string of decimal digits
RECURSIVE ParseInt(_)
ParseInt(s) ==
    IF s = <<>> THEN 0 ELSE 10 * ParseInt(SubSeq(s, 1, Len(s) - 1)) + DigitValue(s[Len(s)])

\* the number of leading characters of s, from position i on, that are digits
DigitRun(s, i) ==
    IF i > Len(s) THEN 0
    ELSE CHOOSE n \in 0..(Len(s) - i + 1) :
            /\ \A k \in i..(i + n - 1) : IsDigit(s[k])
            /\ i + n > Len(s) \/ ~IsDigit(s[i + n])

\* a string of decimal digits without its leading zeros
StripZeros(ds) ==
    LET keep == {i \in 1..Len(ds) : ds[i] # "0"}
    IN  IF keep = {} THEN <<>>
        ELSE SubSeq(ds, CHOOSE i \in keep : \A j \in keep : i <= j, Len(ds))

\* the position after the run of whitespace that starts at i (\s* is greedy)
RECURSIVE SkipWs(_, _)
SkipWs(s, i) == IF i <= Len(s) /\ s[i] \in Whitespace THEN SkipWs(s, i + 1) ELSE i

\* s has the literal w at position i
HasAt(s, i, w) == i + Len(w) - 1 <= Len(s) /\ SubSeq(s, i, i + Len(w) - 1) = w

\* s from position i to its end
From(s, i) == SubSeq(s, i, Len(s))

\* the meridiem (am|pm) at position i, or <<>>
MeridiemAt(s, i) ==
    IF HasAt(s, i, <<"a", "m">>) THEN <<"a", "m">>
    ELSE IF HasAt(s, i, <<"p", "m">>) THEN <<"p", "m">>
    ELSE <<>>

----------------------------------------------------------------------------
(* Python values                                                           *)

None == [t |-> "None"]
PyInt(n) == [t |-> "int", v |-> n]
\* an int of more than MaxIntDigits decimal digits, kept as its digits
PyLong(ds) == [t |-> "long", digits |-> ds]
\* a value the model does not compute
Unmodelled == [t |-> "unmodelled"]
PyDatetime(d) == [t |-> "datetime", v |-> d]
Raised(e) == [t |-> "raise", v |-> e]
\* an exception of type e with the message msg
RaisedWith(e, msg) == [t |-> "raise", v |-> e, msg |-> msg]

----------------------------------------------------------------------------
(* Time: zones, aware datetimes and timedeltas as Python computes them     *)

\* timedelta(days=1), in seconds
ONE_DAY == 86400

\* float's precision in bits (sys.float_info.mant_dig)
MANT_DIG == 53

\* sys.float_info.max_10_exp: a decimal numeral of more than DBL_MAX_10_EXP + 1
\* significant whole digits is beyond the largest double, and float() of it is inf
DBL_MAX_10_EXP == 308

\* the whole numbers of up to MaxIntDigits decimal digits are computed with as
\* integers; longer ones are kept as their digits (PyLong)
MaxIntDigits == 9

BUFFER_MINUTES == 5

\* A zone of the tz database over 2026: the instants (seconds UTC) of its
\* offset changes and the offsets (seconds east of UTC) before, between and
\* after them.  America/Los_Angeles: PST until 2026-03-08T10:00Z, PDT until
\* 2026-11-01T09:00Z, PST after.
ZoneData(z) ==
    CASE z = "UTC" -> [trans |-> <<>>, offs |-> <<0>>]
      [] z = "America/Los_Angeles" ->
            [trans |-> <<66 * ONE_DAY + 10 * 3600, 304 * ONE_DAY + 9 * 3600>>,
             offs |-> <<0 - 8 * 3600, 0 - 7 * 3600, 0 - 8 * 3600>>]

\* the keys ZoneInfo() finds, as text
ZoneKeys ==
    [UTC |-> <<"U", "T", "C">>,
     LA |-> <<"A", "m", "e", "r", "i", "c", "a", "/", "L", "o", "s", "_",
              "A", "n", "g", "e", "l", "e", "s">>]

Max2(a, b) == IF a >= b THEN a ELSE b
Min2(a, b) == IF a <= b THEN a ELSE b

\* ZoneInfo(key): the tzinfo, or the error it raises for a key it does not find
ZoneInfo(key) ==
    IF key = ZoneKeys.UTC THEN [t |-> "tzinfo", v |-> [kind |-> "zone", name |-> "UTC", off |-> 0]]
    ELSE IF key = ZoneKeys.LA
    THEN [t |-> "tzinfo", v |-> [kind |-> "zone", name |-> "America/Los_Angeles", off |-> 0]]
    ELSE IF key = <<>> THEN Raised("ValueError")
    ELSE Raised("ZoneInfoNotFoundError")

\* the offset of zone z at the instant s (seconds UTC)
ZoneOffsetAtUtc(z, s) ==
    LET d == ZoneData(z)
        n == Cardinality({i \in 1..Len(d.trans) : d.trans[i] <= s})
    IN  d.offs[n + 1]

\* the fold of the wall-clock reading of the instant s in zone z: 1 in the
\* second pass through the readings an offset decrease repeats
ZoneFoldAtUtc(z, s) ==
    LET d == ZoneData(z)
    IN  IF \E i \in 1..Len(d.trans) :
              /\ d.trans[i] <= s
              /\ \A j \in 1..Len(d.trans) : d.trans[j] <= s => j <= i
              /\ s - d.trans[i] < d.offs[i] - d.offs[i + 1]
        THEN 1 ELSE 0

\* tzinfo.utcoffset(dt) of a zone: the offset the zone gives the wall-clock
\* reading `wall` with the given fold (a reading in a gap takes the offset
\* before the change when fold is 0, after it when fold is 1)
ZoneOffsetAtWall(z, wall, fold) ==
    LET d == ZoneData(z)
        edge(i) == d.trans[i] + (IF fold = 0 THEN Max2(d.offs[i], d.offs[i + 1])
                                              ELSE Min2(d.offs[i], d.offs[i + 1]))
        n == Cardinality({i \in 1..Len(d.trans) : edge(i) <= wall})
    IN  d.offs[n + 1]

\* timezone(timedelta(seconds=off)): a fixed-offset tzinfo
FixedOffset(off) == [kind |-> "fixed", name |-> "local", off |-> off]

\* dt.utcoffset()
UtcOffset(dt) ==
    IF dt.tz.kind = "fixed" THEN dt.tz.off ELSE ZoneOffsetAtWall(dt.tz.name, dt.wall, dt.fold)

\* the instant a datetime denotes, in seconds UTC (its microseconds are dt.us)
UtcSeconds(dt) == dt.wall - UtcOffset(dt)

\* datetime.now(tz) when the real time is c
DatetimeNow(tz, c) ==
    IF tz.kind = "fixed"
    THEN [wall |-> c.s + tz.off, us |-> c.us, fold |-> 0, tz |-> tz]
    ELSE [wall |-> c.s + ZoneOffsetAtUtc(tz.name, c.s), us |-> c.us,
          fold |-> ZoneFoldAtUtc(tz.name, c.s), tz |-> tz]

\* LocalTzinfo that takes UTC for the local timezone
LocalTzinfoUtc(zone, c) == FixedOffset(0)

\* datetime.now().astimezone().tzinfo: the system zone's offset at the time of
\* the call, as a fixed-offset tzinfo
LocalTzinfo(zone, c) == FixedOffset(ZoneOffsetAtUtc(zone, c.s))

\* dt.replace(hour=hour, minute=minute, second=0, microsecond=0): the date, the
\* fold and the tzinfo are kept; a field out of range raises ValueError
DtReplace(dt, hour, minute) ==
    IF hour \notin 0..23 \/ minute \notin 0..59
    THEN Raised("ValueError")
    ELSE PyDatetime([wall |-> (dt.wall \div ONE_DAY) * ONE_DAY + hour * 3600 + minute * 60,
                     us |-> 0, fold |-> dt.fold, tz |-> dt.tz])

\* dt + timedelta(seconds=secs): wall-clock arithmetic, the fold is reset
DtAdd(dt, secs) == [wall |-> dt.wall + secs, us |-> dt.us, fold |-> 0, tz |-> dt.tz]

\* a <= b for datetimes: of the same tzinfo, the wall-clock readings are
\* compared; otherwise the instants
DtLeq(a, b) ==
    LET x == IF a.tz = b.tz THEN a.wall ELSE UtcSeconds(a)
        y == IF a.tz = b.tz THEN b.wall ELSE UtcSeconds(b)
    IN  x < y \/ (x = y /\ a.us <= b.us)

\* a timedelta: s whole seconds (of either sign) plus us microseconds, 0 <= us < 10^6
TimeDelta(s, us) == [s |-> s, us |-> us]

\* a - b for datetimes: of the same tzinfo, the difference of the wall-clock
\* readings; otherwise of the instants
DtSub(a, b) ==
    LET x == IF a.tz = b.tz THEN a.wall ELSE UtcSeconds(a)
        y == IF a.tz = b.tz THEN b.wall ELSE UtcSeconds(b)
    IN  IF a.us >= b.us THEN TimeDelta(x - y, a.us - b.us)
        ELSE TimeDelta(x - y - 1, a.us - b.us + 1000000)

\* td.total_seconds() > 0
TdPositive(td) == td.s > 0 \/ (td.s = 0 /\ td.us > 0)

\* int(td.total_seconds()): truncation toward zero
TdInt(td) == IF td.s < 0 /\ td.us > 0 THEN td.s + 1 ELSE td.s

\* the real time c advanced by the timedelta td
ClockAdd(c, td) ==
    IF c.us + td.us >= 1000000 THEN [s |-> c.s + td.s + 1, us |-> c.us + td.us - 1000000]
    ELSE [s |-> c.s + td.s, us |-> c.us + td.us]

\* the real time a is at or after the real time b
ClockGeq(a, b) == a.s > b.s \/ (a.s = b.s /\ a.us >= b.us)


----------------------------------------------------------------------------
(* The clock-time parsers                                                  *)

\* a datetime that stands for "not assigned"
NoDatetime == [wall |-> 0, us |-> 0, fold |-> 0, tz |-> FixedOffset(0)]

NoMatch == [ok |-> FALSE, hour |-> 0, minute |-> 0, period |-> <<>>]

\* MatchColonTime without the "$" of the anchored pattern
MatchColonTimeOpen(s, anchored) ==
    LET n == DigitRun(s, 1)
        m == DigitRun(s, n + 2)
        q == SkipWs(s, n + 4)
        p == MeridiemAt(s, q)
    IN  IF n \in {1, 2} /\ HasAt(s, n + 1, <<":">>) /\ m >= 2 /\ p # <<>>
        THEN [ok |-> TRUE, hour |-> ParseInt(SubSeq(s, 1, n)),
              minute |-> ParseInt(SubSeq(s, n + 2, n + 3)), period |-> p]
        ELSE [ok |-> FALSE, hour |-> 0, minute |-> 0, period |-> <<>>]

\* re.match of (\d{1,2}):(\d{2})\s*(am|pm), followed by $ when anchored, on s:
\* the groups as hour, minute and period
MatchColonTime(s, anchored) ==
    LET n == DigitRun(s, 1)
        m == DigitRun(s, n + 2)
        q == SkipWs(s, n + 4)
        p == MeridiemAt(s, q)
    IN  IF /\ n \in {1, 2}
           /\ HasAt(s, n + 1, <<":">>)
           /\ m >= 2
           /\ p # <<>>
           /\ (anchored => q + 1 = Len(s))
        THEN [ok |-> TRUE, hour |-> ParseInt(SubSeq(s, 1, n)),
              minute |-> ParseInt(SubSeq(s, n + 2, n + 3)), period |-> p]
        ELSE NoMatch

\* MatchPlainTime without the \s* of the pattern
MatchPlainTimeNoSpace(s, anchored) ==
    LET n == DigitRun(s, 1)
        p == MeridiemAt(s, n + 1)
    IN  IF n \in {1, 2} /\ p # <<>> /\ (anchored => n + 2 = Len(s))
        THEN [ok |-> TRUE, hour |-> ParseInt(SubSeq(s, 1, n)), minute |-> 0, period |-> p]
        ELSE NoMatch

\* re.match of (\d{1,2})\s*(am|pm), followed by $ when anchored, on s
MatchPlainTime(s, anchored) ==
    LET n == DigitRun(s, 1)
        q == SkipWs(s, n + 1)
        p == MeridiemAt(s, q)
    IN  IF n \in {1, 2} /\ p # <<>> /\ (anchored => q + 1 = Len(s))
        THEN [ok |-> TRUE, hour |-> ParseInt(SubSeq(s, 1, n)), minute |-> 0, period |-> p]
        ELSE NoMatch

\* ":" in s
HasColon(s) == \E i \in 1..Len(s) : s[i] = ":"

\* parse_time_to_seconds, "Convert to 24-hour"
ConvertHourSeconds(hour, period) ==
    IF period = <<"p", "m">> /\ hour # 12 THEN hour + 12
    ELSE IF period = <<"a", "m">> /\ hour = 12 THEN 0
    ELSE hour

\* ConvertHourReset that adds 12 to every pm hour, 12 included
ConvertHourResetNoon(hour, period) ==
    IF period = <<"p", "m">> THEN hour + 12
    ELSE IF period = <<"a", "m">> /\ hour = 12 THEN 0
    ELSE hour

\* parse_reset_time, "Convert to 24-hour"
ConvertHourReset(hour, period) ==
    IF period = <<"p", "m">> /\ hour # 12 THEN hour + 12
    ELSE IF period = <<"a", "m">> /\ hour = 12 THEN 0
    ELSE hour

\* RolloverTarget with "<" where the code has "<="
RolloverTargetStrict(built, nowdt) ==
    IF DtLeq(built, nowdt) /\ ~DtLeq(nowdt, built) THEN DtAdd(built, ONE_DAY) ELSE built

\* RolloverReset with "<" where the code has "<="
RolloverResetStrict(built, nowdt) ==
    IF DtLeq(built, nowdt) /\ ~DtLeq(nowdt, built) THEN DtAdd(built, ONE_DAY) ELSE built

\* parse_time_to_seconds, "If target time is in the past, it's for tomorrow":
\* the datetime built for today, moved one day on when it is not after now
RolloverTarget(built, nowdt) == IF DtLeq(built, nowdt) THEN DtAdd(built, ONE_DAY) ELSE built

\* parse_reset_time, "If reset time is in the past, it's for tomorrow"
RolloverReset(built, nowdt) == IF DtLeq(built, nowdt) THEN DtAdd(built, ONE_DAY) ELSE built

\* what a call of a parser leaves: its result (a value or the error raised),
\* the now it read, the datetime it built for today, the datetime after the
\* rollover rule, the converted hour and the minute, and the lines it logged
Frame(result, nowdt, built, target, hour, minute, logged) ==
    [result |-> result, now |-> nowdt, built |-> built, target |-> target,
     hour |-> hour, minute |-> minute, logged |-> logged]

\* parse_time_to_seconds(time_str, tz) called at real time c on a system set to
\* zone; tz = None stands for the argument left out
parse_time_to_seconds(str, tz, c, zone) ==
    LET s == Strip(Lower(str))
        m == IF HasColon(s) THEN MatchColonTime(s, TRUE) ELSE MatchPlainTime(s, TRUE)
        hour == ConvertHourSeconds(m.hour, m.period)
        tzinfo == IF tz = None THEN LocalTzinfo(zone, c) ELSE tz
        nowdt == DatetimeNow(tzinfo, c)
        built == DtReplace(nowdt, hour, m.minute)
        target == RolloverTarget(built.v, nowdt)
    IN  IF ~m.ok THEN Frame(None, NoDatetime, NoDatetime, NoDatetime, 0, 0, <<>>)
        ELSE IF built.t = "raise"
        THEN Frame(built, nowdt, NoDatetime, NoDatetime, hour, m.minute, <<>>)
        ELSE Frame(PyInt(TdInt(DtSub(target, nowdt))), nowdt, built.v, target,
                   hour, m.minute, <<>>)

\* parse_reset_time(time_str, tz_str) called at real time c on a system set to zone
parse_reset_time(str, tzs, c, zone) ==
    LET key == ReplaceSpaces(Strip(tzs))
        found == ZoneInfo(key)
        tzinfo == IF found.t = "raise" THEN LocalTzinfo(zone, c) ELSE found.v
        logged == IF found.t = "raise" THEN <<"DEBUG: ZoneInfo failed">> ELSE <<>>
        s == Strip(Lower(str))
        m == IF HasColon(s) THEN MatchColonTime(s, FALSE) ELSE MatchPlainTime(s, FALSE)
        hour == ConvertHourReset(m.hour, m.period)
        nowdt == DatetimeNow(tzinfo, c)
        built == DtReplace(nowdt, hour, m.minute)
        reset == RolloverReset(built.v, nowdt)
    IN  IF ~m.ok
        THEN Frame(Raised("AttributeError"), NoDatetime, NoDatetime, NoDatetime, 0, 0, logged)
        ELSE IF built.t = "raise"
        THEN Frame(built, nowdt, NoDatetime, NoDatetime, hour, m.minute, logged)
        ELSE Frame(PyDatetime(reset), nowdt, built.v, reset, hour, m.minute, logged)


----------------------------------------------------------------------------
(* Binary floating point: float() of a decimal numeral, the product with a *)
(* whole number and int(), as IEEE 754 double arithmetic computes them     *)
(* (round to nearest, ties to even).  A value is kept as its whole part    *)
(* and the bits of its fraction, most significant first.                   *)

\* 2^e
RECURSIVE Pow2(_)
Pow2(e) == IF e = 0 THEN 1 ELSE 2 * Pow2(e - 1)

\* 2^e modulo den, by repeated squaring
RECURSIVE Pow2Mod(_, _)
Pow2Mod(e, den) ==
    IF e = 0 THEN 1 % den
    ELSE IF e % 2 = 0 THEN (Pow2Mod(e \div 2, den) * Pow2Mod(e \div 2, den)) % den
    ELSE (2 * Pow2Mod(e - 1, den)) % den

\* what is left of r/den after its first n bits, scaled by den: 0 when they
\* are all of it
FracRem(r, den, n) == (r * Pow2Mod(n, den)) % den

\* the first n bits of the binary expansion of r/den, 0 <= r < den
FracBits(r, den, n) == [j \in 1..n |-> (2 * FracRem(r, den, j - 1)) \div den]

\* the number of zero bits before the first one bit of r/den, 0 < r < den
RECURSIVE FracLeadingZeros(_, _)
FracLeadingZeros(r, den) == IF 2 * r >= den THEN 0 ELSE 1 + FracLeadingZeros(2 * r, den)

\* the number of bits of the whole number q
RECURSIVE BitLength(_)
BitLength(q) == IF q = 0 THEN 0 ELSE 1 + BitLength(q \div 2)

\* the number of zero bits at the head of a bit sequence
LeadingZeros(bits) ==
    LET ones == {i \in 1..Len(bits) : bits[i] = 1}
    IN  IF ones = {} THEN Len(bits) ELSE (CHOOSE i \in ones : \A j \in ones : i <= j) - 1

\* a bit sequence plus one: the sum's bits and the carry out of them
IncBits(bits) ==
    LET zeros == {i \in 1..Len(bits) : bits[i] = 0}
        last == CHOOSE i \in zeros : \A j \in zeros : j <= i
    IN  IF zeros = {} THEN [carry |-> 1, bits |-> [i \in 1..Len(bits) |-> 0]]
        ELSE [carry |-> 0,
              bits |-> [i \in 1..Len(bits) |->
                          IF i < last THEN bits[i] ELSE IF i = last THEN 1 ELSE 0]]

\* the whole number a sequence of at most 15 bits writes
RECURSIVE BitsToInt(_)
BitsToInt(bits) ==
    IF bits = <<>> THEN 0
    ELSE 2 * BitsToInt(SubSeq(bits, 1, Len(bits) - 1)) + bits[Len(bits)]

\* limbs of 15 bits times the whole number k, from the last limb to the first:
\* the product's limbs and the carry out of the first
RECURSIVE MulLimbs(_, _, _, _)
MulLimbs(limbs, k, c, acc) ==
    IF limbs = <<>> THEN [carry |-> c, limbs |-> acc]
    ELSE MulLimbs(SubSeq(limbs, 1, Len(limbs) - 1), k,
                  (limbs[Len(limbs)] * k + c) \div Pow2(15),
                  <<(limbs[Len(limbs)] * k + c) % Pow2(15)>> \o acc)

\* a fraction's bits times the whole number k (k < 2^15): the product's
\* fraction bits and the carry into the whole part.  The bits are multiplied
\* in limbs of 15 bits.
MulBits(bits, k) ==
    LET n == Len(bits)
        t == (n + 14) \div 15
        padded == bits \o [i \in 1..(15 * t - n) |-> 0]
        limbs == [i \in 1..t |-> BitsToInt(SubSeq(padded, 15 * (i - 1) + 1, 15 * i))]
        p == MulLimbs(limbs, k, 0, <<>>)
    IN  [carry |-> p.carry,
         bits |-> [j \in 1..n |-> (p.limbs[(j - 1) \div 15 + 1] \div Pow2(14 - ((j - 1) % 15))) % 2]]

\* the number of fraction bits a double keeps of a value whose whole part is
\* whole and whose fraction starts with lead zero bits
KeptBits(whole, lead) ==
    IF whole > 0 THEN MANT_DIG - BitLength(whole) ELSE MANT_DIG + lead

\* the value whole + 0.bits (+ something below the last bit when sticky),
\* rounded to a double
RoundDouble(whole, bits, sticky) ==
    LET n == KeptBits(whole, LeadingZeros(bits))
    IN  IF n >= Len(bits) THEN [whole |-> whole, bits |-> bits]
        ELSE LET kept == SubSeq(bits, 1, n)
                 below == sticky \/ \E j \in (n + 2)..Len(bits) : bits[j] = 1
                 lsb == IF n >= 1 THEN bits[n] ELSE whole % 2
                 up == bits[n + 1] = 1 /\ (below \/ lsb = 1)
                 inc == IncBits(kept)
             IN  IF up THEN [whole |-> whole + inc.carry, bits |-> inc.bits]
                 ELSE [whole |-> whole, bits |-> kept]

\* float() of the numeral <whole>.<frac digits>, frac/den being its fraction
FloatOf(whole, frac, den) ==
    IF frac = 0 THEN [whole |-> whole, bits |-> <<>>]
    ELSE LET n == KeptBits(whole, FracLeadingZeros(frac, den)) + 1
         IN  RoundDouble(whole, FracBits(frac, den, n), FracRem(frac, den, n) # 0)

\* x * k for a double x and a whole number k
FloatMul(x, k) ==
    LET p == MulBits(x.bits, k)
    IN  RoundDouble(x.whole * k + p.carry, p.bits, FALSE)

\* int(x) for a double x >= 0
FloatInt(x) == x.whole

----------------------------------------------------------------------------
(* parse_duration                                                          *)

UnitsHours == {<<"h">>, <<"h", "r">>, <<"h", "r", "s">>, <<"h", "o", "u", "r">>,
               <<"h", "o", "u", "r", "s">>}

UnitsMinutes == {<<"m">>, <<"m", "i", "n">>, <<"m", "i", "n", "s">>,
                 <<"m", "i", "n", "u", "t", "e">>, <<"m", "i", "n", "u", "t", "e", "s">>}

UnitsSeconds == {<<"s">>, <<"s", "e", "c">>, <<"s", "e", "c", "s">>,
                 <<"s", "e", "c", "o", "n", "d">>, <<"s", "e", "c", "o", "n", "d", "s">>}

\* 10^k
RECURSIVE Pow10(_)
Pow10(k) == IF k = 0 THEN 1 ELSE 10 * Pow10(k - 1)

\* re.match of ^(\d+(?:\.\d+)?)\s*(h|hr|...|seconds)$ on s: the numeral of
\* group 1 as its whole digits, its fraction digits and their number, and group 2
MatchDuration(s) ==
    LET n == DigitRun(s, 1)
        k == IF HasAt(s, n + 1, <<".">>) THEN DigitRun(s, n + 2) ELSE 0
        e == IF k > 0 THEN n + k + 2 ELSE n + 1
        unit == From(s, SkipWs(s, e))
        sig == StripZeros(SubSeq(s, 1, n))
    IN  IF n >= 1 /\ unit \in UnitsHours \cup UnitsMinutes \cup UnitsSeconds
        THEN [ok |-> TRUE, sig |-> sig,
              whole |-> IF Len(sig) <= MaxIntDigits THEN ParseInt(sig) ELSE 0,
              frac |-> ParseInt(SubSeq(s, n + 2, n + 1 + k)), digits |-> k, unit |-> unit]
        ELSE [ok |-> FALSE, sig |-> <<>>, whole |-> 0, frac |-> 0, digits |-> 0, unit |-> <<>>]

\* parse_duration(duration_str)
parse_duration(str) ==
    LET s == Strip(Lower(str))
        m == MatchDuration(s)
        value == FloatOf(m.whole, m.frac, Pow10(m.digits))
    IN  IF ~m.ok THEN None
        \* float() gives inf, and int(inf) raises
        ELSE IF Len(m.sig) > DBL_MAX_10_EXP + 1 THEN Raised("OverflowError")
        \* a whole number of seconds below 2^53: float() and int() keep it as it is
        ELSE IF Len(m.sig) > MaxIntDigits
        THEN IF Len(m.sig) <= 15 /\ m.digits = 0 /\ m.unit \in UnitsSeconds
             THEN PyLong(m.sig) ELSE Unmodelled
        ELSE IF m.unit \in UnitsHours THEN PyInt(FloatInt(FloatMul(value, 3600)))
        ELSE IF m.unit \in UnitsMinutes THEN PyInt(FloatInt(FloatMul(value, 60)))
        ELSE PyInt(FloatInt(value))


----------------------------------------------------------------------------
(* parse_duration_or_time                                                  *)

\* the message of the ValueError parse_duration_or_time raises for arg
CouldNotParse(arg) ==
    <<"C", "o", "u", "l", "d", " ", "n", "o", "t", " ", "p", "a", "r", "s", "e", " ", "'">> \o arg
    \o <<"'", " ", "a", "s", " ", "d", "u", "r", "a", "t", "i", "o", "n", " ", "(", "e", ".", "g", ".", ",", " ", "2", "h", ",", " ", "3", "0", "m", ")", " ", "o", "r", " ", "t", "i", "m", "e", " ", "(", "e", ".", "g", ".", ",", " ", "4", "p", "m", ",", " ", "1", "1", ":", "3", "0", "a", "m", ")">>

\* parse_duration_or_time(arg) called at real time c on a system set to zone
parse_duration_or_time(arg, c, zone) ==
    LET d == parse_duration(arg)
        t == parse_time_to_seconds(arg, None, c, zone)
    IN  IF d # None
        THEN Frame(d, NoDatetime, NoDatetime, NoDatetime, 0, 0, <<>>)
        ELSE IF t.result # None THEN t
        ELSE Frame(RaisedWith("ValueError", CouldNotParse(arg)),
                   NoDatetime, NoDatetime, NoDatetime, 0, 0, <<>>)

----------------------------------------------------------------------------
(* Hook mode: the input, the transcript and the combined text              *)

\* get_recent_transcript_content's num_lines
NUM_LINES == 20

\* a JSON string / a JSON object whose members are strings
JStr(s) == [t |-> "str", s |-> s, fields |-> <<>>]
JDict(fields) == [t |-> "dict", s |-> <<>>, fields |-> fields]
Member(k, val) == [key |-> k, val |-> val]

\* the texts parts[1] ... parts[n] joined with sep between them
RECURSIVE Join(_, _)
Join(parts, sep) ==
    IF parts = <<>> THEN <<>>
    ELSE IF Len(parts) = 1 THEN parts[1]
    ELSE Join(SubSeq(parts, 1, Len(parts) \div 2), sep) \o sep
         \o Join(SubSeq(parts, Len(parts) \div 2 + 1, Len(parts)), sep)

\* s with each of its characters replaced by the text f gives it
RECURSIVE FlatMap(_, _)
FlatMap(s, f) ==
    IF s = <<>> THEN <<>>
    ELSE IF Len(s) = 1 THEN f[s[1]]
    ELSE FlatMap(SubSeq(s, 1, Len(s) \div 2), f)
         \o FlatMap(SubSeq(s, Len(s) \div 2 + 1, Len(s)), f)

\* repr() of a string: in single quotes, or in double quotes when it holds a
\* single quote and no double quote; backslash, newline, tab and the quote
\* character are escaped
ReprStr(s) ==
    LET hasSingle == \E i \in 1..Len(s) : s[i] = "'"
        hasDouble == \E i \in 1..Len(s) : s[i] = "\""
        q == IF hasSingle /\ ~hasDouble THEN "\"" ELSE "'"
        chars == {s[i] : i \in 1..Len(s)}
        esc == [c \in chars |->
                  IF c = "\\" THEN <<"\\", "\\">>
                  ELSE IF c = "\n" THEN <<"\\", "n">>
                  ELSE IF c = "\t" THEN <<"\\", "t">>
                  ELSE IF c = q THEN <<"\\", c>>
                  ELSE <<c>>]
    IN  <<q>> \o FlatMap(s, esc) \o <<q>>

\* repr() of a value: a string in quotes, a dict as {'key': value, ...}
RECURSIVE PyRepr(_)
PyRepr(val) ==
    IF val.t = "str" THEN ReprStr(val.s)
    ELSE <<"{">>
         \o Join([i \in 1..Len(val.fields) |->
                    ReprStr(val.fields[i].key) \o <<":", " ">>
                    \o PyRepr(val.fields[i].val)], <<",", " ">>)
         \o <<"}">>

\* str() of a value: a string is itself, a dict is its repr
PyStr(val) == IF val.t = "str" THEN val.s ELSE PyRepr(val)

\* key in d
HasKey(d, k) == \E i \in 1..Len(d.fields) : d.fields[i].key = k

\* d[key]
Get(d, k) == d.fields[CHOOSE i \in 1..Len(d.fields) : d.fields[i].key = k].val

K_transcript_path == <<"t", "r", "a", "n", "s", "c", "r", "i", "p", "t", "_", "p", "a", "t", "h">>
K_message == <<"m", "e", "s", "s", "a", "g", "e">>
K_content == <<"c", "o", "n", "t", "e", "n", "t">>
K_text == <<"t", "e", "x", "t">>

\* the texts one transcript line adds to content_parts: a line that is a JSON
\* object adds its message (a string, or the content of a dict), its content,
\* its text and the object's own str(); a line that is other JSON adds
\* nothing; a line that is not JSON is added as it is
LineParts(line) ==
    IF line.kind = "raw" THEN <<line.text>>
    ELSE IF line.kind # "dict" THEN <<>>
    ELSE LET e == line.entry
             msg == Get(e, K_message)
         IN  (IF ~HasKey(e, K_message) THEN <<>>
              ELSE IF msg.t = "str" THEN <<msg.s>>
              ELSE IF HasKey(msg, K_content) THEN <<PyStr(Get(msg, K_content))>>
              ELSE <<>>)
             \o (IF HasKey(e, K_content) THEN <<PyStr(Get(e, K_content))>> ELSE <<>>)
             \o (IF HasKey(e, K_text) THEN <<PyStr(Get(e, K_text))>> ELSE <<>>)
             \o <<PyStr(e)>>

\* content_parts after the loop over the lines
RECURSIVE ContentParts(_)
ContentParts(lines) ==
    IF lines = <<>> THEN <<>>
    ELSE IF Len(lines) = 1 THEN LineParts(lines[1])
    ELSE ContentParts(SubSeq(lines, 1, Len(lines) \div 2))
         \o ContentParts(SubSeq(lines, Len(lines) \div 2 + 1, Len(lines)))

\* get_recent_transcript_content(transcript_path) on the file system that
\* holds the file `file`: the text, and the lines logged.  A path that names
\* no file gives "" and a log line; a path that cannot be opened as a file
\* (the empty path is the current directory) gives "" through the handler
get_recent_transcript_content(path, file) ==
    IF path.t # "str" \/ path.s = <<>>
    THEN [text |-> <<>>, logged |-> <<"DEBUG: Error reading transcript">>]
    ELSE IF ~file.exists \/ file.path # path.s
    THEN [text |-> <<>>, logged |-> <<"DEBUG: Transcript file not found">>]
    ELSE LET lines == file.lines
             recent_lines == IF Len(lines) > NUM_LINES
                             THEN SubSeq(lines, Len(lines) - NUM_LINES + 1, Len(lines))
                             ELSE lines
         IN  [text |-> Join(ContentParts(recent_lines), <<" ">>), logged |-> <<>>]

\* json.load(sys.stdin) and its handler: the input_data, and the line logged
LoadInput(in) ==
    IF in.kind \in {"invalid", "empty"}
    THEN [data |-> [kind |-> "object", val |-> JDict(<<>>)], logged |-> <<"DEBUG: JSON decode error">>]
    ELSE [data |-> in, logged |-> <<"DEBUG: Received JSON input">>]

\* input_data.get("transcript_path", ""), for an input_data that is a dict
TranscriptPath(data) ==
    IF HasKey(data.val, K_transcript_path) THEN Get(data.val, K_transcript_path)
    ELSE JStr(<<>>)

\* message = str(input_data) + " " + transcript_content, for an input_data
\* that is a dict
CombinedMessage(data, file) ==
    PyRepr(data.val) \o <<" ">>
    \o get_recent_transcript_content(TranscriptPath(data), file).text

----------------------------------------------------------------------------
(* Hook mode: detection and extraction                                     *)

\* re.search of a literal
Contains(s, w) == \E i \in 1..Len(s) : s[i] = w[1] /\ HasAt(s, i, w)

W_hit_your_limit == <<"h", "i", "t", " ", "y", "o", "u", "r", " ", "l", "i", "m", "i", "t">>
W_usage_limit == <<"u", "s", "a", "g", "e", " ", "l", "i", "m", "i", "t">>
W_stop == <<"s", "t", "o", "p">>
W_and == <<"a", "n", "d">>
W_wait == <<"w", "a", "i", "t">>
W_for == <<"f", "o", "r">>
W_limit == <<"l", "i", "m", "i", "t">>
W_rate == <<"r", "a", "t", "e">>

\* the word w at position i and at least one whitespace character after it:
\* the position after them, or 0
WordThenSpace(s, i, w) ==
    IF i > 0 /\ HasAt(s, i, w) /\ SkipWs(s, i + Len(w)) > i + Len(w)
    THEN SkipWs(s, i + Len(w)) ELSE 0

\* re.search of stop\s+and\s+wait\s+for\s+(?:limit|rate)
ContainsStopAndWait(s) ==
    \E i \in {k \in 1..Len(s) : s[k] = "s"} :
        LET j == WordThenSpace(s, WordThenSpace(s, WordThenSpace(s,
                    WordThenSpace(s, i, W_stop), W_and), W_wait), W_for)
        IN  j > 0 /\ (HasAt(s, j, W_limit) \/ HasAt(s, j, W_rate))

\* ContainsRateLimit that wants whitespace between the words
ContainsRateSpaceLimit(s) ==
    \E i \in {k \in 1..Len(s) : s[k] = "r"} :
        HasAt(s, i, W_rate) /\ SkipWs(s, i + 4) > i + 4 /\ HasAt(s, SkipWs(s, i + 4), W_limit)

\* re.search of rate\s*limit
ContainsRateLimit(s) ==
    \E i \in {k \in 1..Len(s) : s[k] = "r"} :
        HasAt(s, i, W_rate) /\ HasAt(s, SkipWs(s, i + 4), W_limit)

\* is_rate_limit: any of rate_limit_indicators found, ignoring case
is_rate_limit(msg) ==
    LET s == Lower(msg)
    IN  \/ Contains(s, W_hit_your_limit)
        \/ Contains(s, W_usage_limit)
        \/ ContainsStopAndWait(s)
        \/ ContainsRateLimit(s)

\* the position of the first ")" of s at or after i, or 0
FindClose(s, i) ==
    LET closes == {j \in i..Len(s) : s[j] = ")"}
    IN  IF closes = {} THEN 0 ELSE CHOOSE j \in closes : \A k \in closes : j <= k

\* time_pattern tried at position i of the lower-cased text s with nd hour
\* digits and with or without the minute group: where the groups lie
TimePatternAt(s, i, nd, withMinute) ==
    LET a == i + nd
        b == IF withMinute THEN a + 3 ELSE a
        q == SkipWs(s, b)
        r == SkipWs(s, q + 2)
    IN  [from |-> i, timeEnd |-> q + 1, tzFrom |-> r + 1, tzEnd |-> FindClose(s, r + 1) - 1]

\* time_pattern matches at position i with nd hour digits and with or
\* without the minute group
TimePatternOk(s, i, nd, withMinute) ==
    LET g == TimePatternAt(s, i, nd, withMinute)
    IN  /\ DigitRun(s, i) >= nd
        /\ (withMinute => HasAt(s, i + nd, <<":">>) /\ DigitRun(s, i + nd + 1) >= 2)
        /\ MeridiemAt(s, g.timeEnd - 1) # <<>>
        /\ HasAt(s, g.tzFrom - 1, <<"(">>)
        /\ g.tzEnd >= g.tzFrom

\* the ways time_pattern can match at one position, in the order the regex
\* engine tries them: two hour digits before one, the minute group before none
TimePatternTries ==
    <<[nd |-> 2, withMinute |-> TRUE], [nd |-> 2, withMinute |-> FALSE],
      [nd |-> 1, withMinute |-> TRUE], [nd |-> 1, withMinute |-> FALSE]>>

\* the groups of the first way time_pattern matches at position i
FirstTry(s, i) ==
    LET ok == {k \in 1..4 : TimePatternOk(s, i, TimePatternTries[k].nd,
                                          TimePatternTries[k].withMinute)}
        k1 == CHOOSE k \in ok : \A l \in ok : k <= l
    IN  TimePatternAt(s, i, TimePatternTries[k1].nd, TimePatternTries[k1].withMinute)

\* LeftmostMatch that takes the last of the positions
RightmostMatch(msg, s, hits) ==
    IF hits = {} THEN [ok |-> FALSE, time_str |-> <<>>, tz_str |-> <<>>]
    ELSE LET m == FirstTry(s, CHOOSE i \in hits : \A j \in hits : i >= j)
         IN  [ok |-> TRUE, time_str |-> SubSeq(msg, m.from, m.timeEnd),
              tz_str |-> SubSeq(msg, m.tzFrom, m.tzEnd)]

\* the groups of the leftmost match of the positions hits, cut from msg
LeftmostMatch(msg, s, hits) ==
    IF hits = {} THEN [ok |-> FALSE, time_str |-> <<>>, tz_str |-> <<>>]
    ELSE LET m == FirstTry(s, CHOOSE i \in hits : \A j \in hits : i <= j)
         IN  [ok |-> TRUE, time_str |-> SubSeq(msg, m.from, m.timeEnd),
              tz_str |-> SubSeq(msg, m.tzFrom, m.tzEnd)]

\* the positions of s where time_pattern matches
MatchPositions(s) ==
    {i \in {j \in 1..Len(s) : IsDigit(s[j])} :
        \E k \in 1..4 : TimePatternOk(s, i, TimePatternTries[k].nd,
                                      TimePatternTries[k].withMinute)}

\* re.search(time_pattern, message, re.IGNORECASE): the leftmost match, its
\* groups cut from the message as written
SearchTimePattern(msg) == LeftmostMatch(msg, Lower(msg), MatchPositions(Lower(msg)))

----------------------------------------------------------------------------
(* The runs the model explores                                             *)

\* the number of times the real time is moved on between two steps of a run
MaxTicks == 2

\* hours 0..MaxHour are written in the clock-time tokens of direct calls
MaxHour == 25

\* whole parts 0..MaxWhole and up to MaxFracDigits fraction digits are written
\* in the duration tokens of direct calls
MaxWhole == 5
MaxFracDigits == 2

\* the real time moves on by one of these numbers of seconds in a Tick
TickSeconds == {1, 400}

\* time.sleep() returns this many seconds after the time asked for
SleepOvershoot == {0, 1}

Utc(day, h, m, sec) == day * ONE_DAY + h * 3600 + m * 60 + sec

\* the real times a run starts at (seconds UTC, day 0 being 2026-01-01):
\* an ordinary day, the hours around the end of daylight saving time in
\* America/Los_Angeles (2026-11-01T09:00Z) and around its start (2026-03-08T10:00Z)
ClockSeconds ==
    {Utc(165, 12, 0, 0), Utc(165, 23, 58, 0),
     Utc(304, 6, 0, 0), Utc(304, 8, 30, 0), Utc(304, 9, 30, 0), Utc(304, 10, 30, 0),
     Utc(66, 7, 0, 0), Utc(66, 9, 59, 59), Utc(66, 10, 10, 0)}

Clocks == {[s |-> x, us |-> u] : x \in ClockSeconds, u \in {0, 500000}}

SystemZones == {"UTC", "America/Los_Angeles"}

\* str() of a number below 100
ToDigits(n) == IF n < 10 THEN <<Digits[n + 1]>> ELSE <<Digits[(n \div 10) + 1], Digits[(n % 10) + 1]>>

\* a number below 10^k written with k digits
RECURSIVE ToFixedDigits(_, _)
ToFixedDigits(n, k) ==
    IF k = 0 THEN <<>> ELSE Append(ToFixedDigits(n \div 10, k - 1), Digits[(n % 10) + 1])

T_UTC == ZoneKeys.UTC
T_LA == ZoneKeys.LA
T_LA_spaces == <<"A", "m", "e", "r", "i", "c", "a", "/", "L", "o", "s", " ", "A", "n", "g", "e", "l", "e", "s">>
T_LA_padded == <<" ", "A", "m", "e", "r", "i", "c", "a", "/", "L", "o", "s", " ", "A", "n", "g", "e", "l", "e", "s", " ">>
T_blank == <<" ", " ">>
T_unknown == <<"M", "a", "r", "s", "/", "P", "h", "o", "b", "o", "s">>

\* timezone texts: two known keys (T_UTC, T_LA), a key written with a space,
\* with spaces around it, and one the tz database does not know

\* the clock-time tokens the notices of hook-mode runs carry
HookTokens ==
    {<<"4", "a", "m">>, <<"1", "2", "a", "m">>, <<"1", "2", "p", "m">>, <<"1", ":", "4", "5", "a", "m">>, <<"2", "a", "m">>, <<"2", ":", "3", "0", "a", "m">>, <<"1", "1", ":", "5", "9", "p", "m">>, <<"4", " ", "P", "M">>,
     <<"2", "5", ":", "0", "0", "p", "m">>, <<"1", "2", ":", "6", "0", "a", "m">>, <<"1", "3", "p", "m">>}

\* the phrases of a notice
HookPhrases == {<<"Y", "o", "u", "'", "v", "e", " ", "h", "i", "t", " ", "y", "o", "u", "r", " ", "l", "i", "m", "i", "t">>, <<"A", "P", "I", " ", "R", "A", "T", "E", " ", " ", "L", "I", "M", "I", "T", " ", "r", "e", "a", "c", "h", "e", "d">>}

ResetNote(tok, tz) == <<" ", "-", " ", "r", "e", "s", "e", "t", "s", " ">> \o tok \o <<" ", "(">> \o tz \o <<")">>

\* the timezone texts the notices of hook-mode runs carry
HookTzTexts == {T_UTC, T_LA, T_LA_spaces, T_unknown}

\* the notice texts: a phrase, with or without a reset time and timezone, and
\* texts that are no notice
HookTexts ==
    {<<"t", "a", "s", "k", " ", "c", "o", "m", "p", "l", "e", "t", "e", "d", " ", "s", "u", "c", "c", "e", "s", "s", "f", "u", "l", "l", "y">>, <<"a", "l", "l", " ", "d", "o", "n", "e">> \o ResetNote(<<"4", "a", "m">>, T_UTC)}
    \cup HookPhrases
    \cup {<<"Y", "o", "u", "'", "v", "e", " ", "h", "i", "t", " ", "y", "o", "u", "r", " ", "l", "i", "m", "i", "t">> \o ResetNote(tok, tz) : tok \in HookTokens, tz \in HookTzTexts}
    \cup {<<"A", "P", "I", " ", "R", "A", "T", "E", " ", " ", "L", "I", "M", "I", "T", " ", "r", "e", "a", "c", "h", "e", "d">> \o ResetNote(tok, T_UTC) : tok \in {<<"4", "a", "m">>, <<"1", "3", "p", "m">>}}

\* the notice texts met in a transcript file
TranscriptTexts ==
    {<<"t", "a", "s", "k", " ", "c", "o", "m", "p", "l", "e", "t", "e", "d", " ", "s", "u", "c", "c", "e", "s", "s", "f", "u", "l", "l", "y">>, <<"u", "s", "a", "g", "e", " ", "l", "i", "m", "i", "t", " ", "r", "e", "a", "c", "h", "e", "d">>}
    \cup {<<"Y", "o", "u", "'", "v", "e", " ", "h", "i", "t", " ", "y", "o", "u", "r", " ", "l", "i", "m", "i", "t">> \o ResetNote(tok, T_LA) : tok \in {<<"2", "a", "m">>, <<"2", "5", ":", "0", "0", "p", "m">>}}

P_transcript == <<"/", "t", ".", "j", "s", "o", "n", "l">>
K_last == <<"l", "a", "s", "t", "_", "m", "e", "s", "s", "a", "g", "e">>
K_role == <<"r", "o", "l", "e">>

NoFile == [exists |-> FALSE, path |-> <<>>, lines |-> <<>>]
File(lines) == [exists |-> TRUE, path |-> P_transcript, lines |-> lines]
RawLine(text) == [kind |-> "raw", text |-> text, entry |-> JDict(<<>>)]
DictLine(entry) == [kind |-> "dict", text |-> <<>>, entry |-> entry]
OtherLine == [kind |-> "other", text |-> <<>>, entry |-> JDict(<<>>)]

Input(kind, val) == [kind |-> kind, val |-> val]

\* texts with and without the phrases of a notice, in several spellings
NoticeTexts ==
    {<<"r", "a", "t", "e", "l", "i", "m", "i", "t">>, <<"R", "a", "t", "e", " ", "L", "i", "m", "i", "t", " ", "e", "x", "c", "e", "e", "d", "e", "d">>, <<"s", "e", "p", "a", "R", "A", "T", "E", " ", " ", " ", "L", "I", "M", "I", "T", "s">>, <<"l", "i", "m", "i", "t", " ", "r", "a", "t", "e">>, <<"r", "a", "t", "e", "-", "l", "i", "m", "i", "t">>,
     <<"H", "I", "T", " ", "Y", "O", "U", "R", " ", "L", "I", "M", "I", "T">>, <<"h", "i", "t", " ", " ", "y", "o", "u", "r", " ", "l", "i", "m", "i", "t">>, <<"h", "i", "t", " ", "y", "o", "u", "r", " ", "l", "i", "m", "i", "t", "s", " ", "t", "o", "d", "a", "y">>, <<"U", "s", "a", "g", "e", " ", "L", "i", "m", "i", "t">>, <<"u", "s", "a", "g", "e", "l", "i", "m", "i", "t">>,
     <<"S", "t", "o", "p", " ", "a", "n", "d", " ", " ", "w", "a", "i", "t", " ", "f", "o", "r", " ", "r", "a", "t", "e">>, <<"p", "l", "e", "a", "s", "e", " ", "S", "T", "O", "P", " ", "A", "N", "D", " ", "W", "A", "I", "T", " ", "F", "O", "R", " ", "L", "I", "M", "I", "T", " ", "r", "e", "s", "e", "t">>, <<"s", "t", "o", "p", "a", "n", "d", "w", "a", "i", "t", "f", "o", "r", "l", "i", "m", "i", "t">>,
     <<"s", "t", "o", "p", " ", "a", "n", "d", " ", "w", "a", "i", "t", " ", "f", "o", "r">>, <<"s", "t", "o", "p", " ", "a", "n", "d", " ", "w", "a", "i", "t", " ", "f", "o", "r", " ", "t", "h", "e", " ", "l", "i", "m", "i", "t">>, <<"s", "t", "o", "p", ",", " ", "a", "n", "d", " ", "w", "a", "i", "t", " ", "f", "o", "r", " ", "l", "i", "m", "i", "t">>, <<>>}

\* the same, on lines with tabs and line ends between the words
NoticeLines ==
    {<<"r", "a", "t", "e", "\t", "l", "i", "m", "i", "t", "\n">>,
     <<"s", "t", "o", "p", "\t", "a", "n", "d", " ", "\t", "w", "a", "i", "t", " ", "f", "o", "r", "\t", "r", "a", "t", "e", "\n">>,
     <<"h", "i", "t", "\t", "y", "o", "u", "r", " ", "l", "i", "m", "i", "t", "\n">>,
     <<"r", "a", "t", "e", "\n">>}

\* three notices, each with its own reset time and timezone
N_A == <<"Y", "o", "u", "'", "v", "e", " ", "h", "i", "t", " ", "y", "o", "u", "r", " ", "l", "i", "m", "i", "t">> \o ResetNote(<<"4", "a", "m">>, T_UTC)
N_B == <<"Y", "o", "u", "'", "v", "e", " ", "h", "i", "t", " ", "y", "o", "u", "r", " ", "l", "i", "m", "i", "t">> \o ResetNote(<<"5", " ", "P", "M">>, T_LA_padded)
N_C == <<"u", "s", "a", "g", "e", " ", "l", "i", "m", "i", "t", " ", "r", "e", "a", "c", "h", "e", "d">> \o ResetNote(<<"1", "1", ":", "5", "9", "p", "m">>, <<"U", "T", "C", " ", "(", "w", "e", "s", "t", ")", ")">>)

\* the input object that names the transcript file, with or without a message
InputWithPath(texts) ==
    Input("object", JDict([i \in 1..Len(texts) |-> Member(K_last, JStr(texts[i]))]
                          \o <<Member(K_transcript_path, JStr(P_transcript))>>))

\* a line whose message is a JSON object with the content tx
ContentLine(tx) == DictLine(JDict(<<Member(K_message, JDict(<<Member(K_content, JStr(tx))>>))>>))

\* the notice N_A in the input and N_B in the transcript
S_input_first == [stdin |-> InputWithPath(<<N_A>>), transcript |-> File(<<RawLine(N_B \o <<"\n">>)>>)]

\* N_B on the second line and N_C on the third
S_oldest_line ==
    [stdin |-> InputWithPath(<<>>),
     transcript |-> File(<<RawLine(<<"u", "s", "a", "g", "e", " ", "l", "i", "m", "i", "t", " ", "r", "e", "a", "c", "h", "e", "d">> \o <<"\n">>), ContentLine(N_B),
                           RawLine(N_C \o <<"\n">>)>>)]

\* a file of n lines, N_A on its first and N_C on its last
S_lines(n) ==
    [stdin |-> InputWithPath(<<>>),
     transcript |-> File(<<RawLine(N_A \o <<"\n">>)>> \o [i \in 1..(n - 2) |-> OtherLine]
                         \o <<RawLine(N_C \o <<"\n">>)>>)]

\* transcript lines whose clock times are written in unusual ways
OddTimeLines ==
    {<<"u", "s", "a", "g", "e", " ", "l", "i", "m", "i", "t", " ", "4", "\t", "P", "M", "\t", "(", "U", "T", "C", ")", "\n">>,
     <<"u", "s", "a", "g", "e", " ", "l", "i", "m", "i", "t", " ", "9", "9", ":", "9", "9", "A", "M", " ", "(", "U", "T", "C", ")">>, <<"u", "s", "a", "g", "e", " ", "l", "i", "m", "i", "t", " ", "1", ":", "2", "3", "4", "p", "m", " ", "(", "U", "T", "C", ")">>, <<"u", "s", "a", "g", "e", " ", "l", "i", "m", "i", "t", " ", "0", "a", "m", " ", "(", "U", "T", "C", ")">>,
     <<"u", "s", "a", "g", "e", " ", "l", "i", "m", "i", "t", " ", "0", "0", "7", "P", "m", "(", "U", "T", "C", ")">>, <<"u", "s", "a", "g", "e", " ", "l", "i", "m", "i", "t", " ", "1", "2", ":", "5", "p", "m", " ", "3", ":", "0", "7", " ", "a", "m", " ", " ", "(", "U", "T", "C", ")">>}

\* runs with several reset times in the combined text
SeveralPairs == {S_input_first, S_oldest_line, S_lines(NUM_LINES), S_lines(NUM_LINES + 1)}

\* a hook-mode run's standard input and transcript file: the notice text in
\* the input object, in a transcript line that is not JSON, or in the message
\* of a transcript line that is a JSON object
HookScenarios ==
    {[stdin |-> Input("object", JDict(<<Member(K_last, JStr(tx))>>)), transcript |-> NoFile] :
        tx \in HookTexts}
    \cup {[stdin |-> Input("object", JDict(<<Member(K_transcript_path, JStr(P_transcript))>>)),
           transcript |-> File(<<OtherLine, RawLine(tx \o <<"\n">>)>>)] : tx \in TranscriptTexts}
    \cup {[stdin |-> Input("object", JDict(<<Member(K_transcript_path, JStr(P_transcript))>>)),
           transcript |-> File(<<DictLine(JDict(<<Member(K_role, JStr(<<"a", "s", "s", "i", "s", "t", "a", "n", "t">>)),
                                                  Member(K_message, JDict(<<Member(K_content, JStr(tx))>>))>>))>>)] :
            tx \in TranscriptTexts}
    \cup {[stdin |-> Input("object", JDict(<<Member(K_last, JStr(tx))>>)), transcript |-> NoFile] :
            tx \in NoticeTexts}
    \cup SeveralPairs
    \cup {[stdin |-> InputWithPath(<<>>), transcript |-> File(<<RawLine(tx)>>)] : tx \in OddTimeLines}
    \cup {[stdin |-> Input("object", JDict(<<Member(K_last, JStr(SubSeq(tx, 1, Len(tx) - 1))),
                                             Member(K_transcript_path, JStr(P_transcript))>>)),
           transcript |-> File(<<RawLine(tx), RawLine(<<"l", "i", "m", "i", "t", "\n">>)>>)] :
            tx \in NoticeLines}
    \cup {[stdin |-> Input("object", JDict(<<Member(K_transcript_path, JStr(P_transcript))>>)),
           transcript |-> NoFile],
          [stdin |-> Input("object", JDict(<<>>)),
           transcript |-> File(<<RawLine(<<"Y", "o", "u", "'", "v", "e", " ", "h", "i", "t", " ", "y", "o", "u", "r", " ", "l", "i", "m", "i", "t">> \o ResetNote(<<"4", "a", "m">>, T_UTC))>>)]}
    \cup {[stdin |-> Input(k, JStr(tx)), transcript |-> NoFile] :
            k \in {"invalid", "empty", "null", "number", "string", "array"},
            tx \in {<<"Y", "o", "u", "'", "v", "e", " ", "h", "i", "t", " ", "y", "o", "u", "r", " ", "l", "i", "m", "i", "t">> \o ResetNote(<<"4", "a", "m">>, T_UTC)}}

ContinueTrue == [continue |-> TRUE]
ContinueFalse == [continue |-> FALSE]

NoFrame == Frame(None, NoDatetime, NoDatetime, NoDatetime, 0, 0, <<>>)
NoCall == [fn |-> "", arg |-> <<>>, parts |-> 0, tz |-> None, tzs |-> <<>>]

Init ==
    /\ mode = "hook"
    /\ pc = "start"
    /\ clock \in Clocks
    /\ sysZone \in SystemZones
    /\ \E sc \in HookScenarios : stdin = sc.stdin /\ transcript = sc.transcript
    /\ message = <<>>
    /\ time_str = <<>>
    /\ tz_str = <<>>
    /\ reset_time = NoDatetime
    /\ wake_time = NoDatetime
    /\ now = NoDatetime
    /\ sleep_seconds = TimeDelta(0, 0)
    /\ slept = <<>>
    /\ stdout = <<>>
    /\ logs = <<>>
    /\ ticks = 0
    /\ call = NoCall
    /\ ret = NoFrame
    /\ stderr = <<>>
    /\ exit = <<>>


----------------------------------------------------------------------------
(* Hook mode: hook_mode() step by step                                     *)

\* input_data is not a dict: input_data.get raises AttributeError, which
\* nothing handles; the run ends with a traceback and prints nothing
HookCrash ==
    /\ mode = "hook" /\ pc = "start"
    /\ LoadInput(stdin).data.kind # "object"
    /\ logs' = logs \o LoadInput(stdin).logged
    /\ pc' = "crashed"
    /\ stderr' = Append(stderr, "Traceback (most recent call last):")
    /\ exit' = <<1>>
    /\ UNCHANGED <<mode, clock, sysZone, stdin, transcript, message, time_str, tz_str,
                   reset_time, wake_time, now, sleep_seconds, slept, stdout, ticks,
                   call, ret>>

\* input_data is a dict: the transcript is read and the combined message built
HookRead ==
    /\ mode = "hook" /\ pc = "start"
    /\ LoadInput(stdin).data.kind = "object"
    /\ message' = CombinedMessage(LoadInput(stdin).data, transcript)
    /\ logs' = logs \o LoadInput(stdin).logged
               \o get_recent_transcript_content(TranscriptPath(LoadInput(stdin).data),
                                                transcript).logged
               \o <<"DEBUG: Combined message">>
    /\ pc' = "detect"
    /\ UNCHANGED <<mode, clock, sysZone, stdin, transcript, time_str, tz_str,
                   reset_time, wake_time, now, sleep_seconds, slept, stdout, ticks,
                   call, ret, stderr, exit>>

\* HookNotRateLimit without its "return": the decision is printed and the run
\* goes on to look for the reset time
HookNotRateLimitNoReturn ==
    /\ mode = "hook" /\ pc = "detect"
    /\ ~is_rate_limit(message)
    /\ SearchTimePattern(message).ok
    /\ time_str' = SearchTimePattern(message).time_str
    /\ tz_str' = SearchTimePattern(message).tz_str
    /\ logs' = logs \o <<"DEBUG: is_rate_limit = False",
                         "DEBUG: Not a rate limit, returning continue=False">>
    /\ stdout' = Append(stdout, ContinueFalse)
    /\ pc' = "resolve"
    /\ UNCHANGED <<mode, clock, sysZone, stdin, transcript, message, reset_time, wake_time,
                   now, sleep_seconds, slept, ticks, call, ret, stderr, exit>>

\* "if not is_rate_limit": print {"continue": false} and return
HookNotRateLimit ==
    /\ mode = "hook" /\ pc = "detect"
    /\ ~is_rate_limit(message)
    /\ logs' = logs \o <<"DEBUG: is_rate_limit = False",
                         "DEBUG: Not a rate limit, returning continue=False">>
    /\ stdout' = Append(stdout, ContinueFalse)
    /\ pc' = "done"
    /\ exit' = <<0>>
    /\ UNCHANGED <<mode, clock, sysZone, stdin, transcript, message, time_str, tz_str,
                   reset_time, wake_time, now, sleep_seconds, slept, ticks, call, ret, stderr>>

\* "if not match": log the note, print {"continue": false} and return
HookNoResetTime ==
    /\ mode = "hook" /\ pc = "detect"
    /\ is_rate_limit(message)
    /\ ~SearchTimePattern(message).ok
    /\ logs' = logs \o <<"DEBUG: is_rate_limit = True",
                         "Rate limit detected but no reset time found">>
    /\ stdout' = Append(stdout, ContinueFalse)
    /\ pc' = "done"
    /\ exit' = <<0>>
    /\ UNCHANGED <<mode, clock, sysZone, stdin, transcript, message, time_str, tz_str,
                   reset_time, wake_time, now, sleep_seconds, slept, ticks, call, ret, stderr>>

\* the match: time_str and tz_str are its groups
HookExtract ==
    /\ mode = "hook" /\ pc = "detect"
    /\ is_rate_limit(message)
    /\ SearchTimePattern(message).ok
    /\ time_str' = SearchTimePattern(message).time_str
    /\ tz_str' = SearchTimePattern(message).tz_str
    /\ logs' = logs \o <<"DEBUG: is_rate_limit = True", "Rate limit detected. Reset time">>
    /\ pc' = "resolve"
    /\ UNCHANGED <<mode, clock, sysZone, stdin, transcript, message, reset_time, wake_time,
                   now, sleep_seconds, slept, stdout, ticks, call, ret, stderr, exit>>

\* reset_time = parse_reset_time(...); wake_time = reset_time + buffer
HookResolve ==
    /\ mode = "hook" /\ pc = "resolve"
    /\ LET f == parse_reset_time(time_str, tz_str, clock, sysZone)
       IN  /\ f.result.t = "datetime"
           /\ ret' = f
           /\ reset_time' = f.result.v
           /\ wake_time' = DtAdd(f.result.v, BUFFER_MINUTES * 60)
           /\ logs' = logs \o f.logged
    /\ pc' = "wait"
    /\ UNCHANGED <<mode, clock, sysZone, stdin, transcript, message, time_str, tz_str,
                   now, sleep_seconds, slept, stdout, ticks, call, stderr, exit>>

\* HookResolveError whose handler prints {"continue": true}
HookResolveErrorResume ==
    /\ mode = "hook" /\ pc = "resolve"
    /\ LET f == parse_reset_time(time_str, tz_str, clock, sysZone)
       IN  /\ f.result.t = "raise"
           /\ ret' = f
           /\ logs' = logs \o f.logged \o <<"Error parsing time">>
    /\ stdout' = Append(stdout, ContinueTrue)
    /\ pc' = "done"
    /\ exit' = <<0>>
    /\ UNCHANGED <<mode, clock, sysZone, stdin, transcript, message, time_str, tz_str,
                   reset_time, wake_time, now, sleep_seconds, slept, ticks, call, stderr>>

\* parse_reset_time raises: "except Exception" logs it and prints {"continue": false}
HookResolveError ==
    /\ mode = "hook" /\ pc = "resolve"
    /\ LET f == parse_reset_time(time_str, tz_str, clock, sysZone)
       IN  /\ f.result.t = "raise"
           /\ ret' = f
           /\ logs' = logs \o f.logged \o <<"Error parsing time">>
    /\ stdout' = Append(stdout, ContinueFalse)
    /\ pc' = "done"
    /\ exit' = <<0>>
    /\ UNCHANGED <<mode, clock, sysZone, stdin, transcript, message, time_str, tz_str,
                   reset_time, wake_time, now, sleep_seconds, slept, ticks, call, stderr>>

\* Wait measured to the reset time, the buffer left out
WaitNoBuffer(c) == DtSub(reset_time, DatetimeNow(reset_time.tz, c))

\* the wait read off the clock
Wait(c) == DtSub(wake_time, DatetimeNow(reset_time.tz, c))

\* "if sleep_seconds > 0": time.sleep(sleep_seconds) starts
HookSleep ==
    /\ mode = "hook" /\ pc = "wait"
    /\ TdPositive(Wait(clock))
    /\ now' = DatetimeNow(reset_time.tz, clock)
    /\ sleep_seconds' = Wait(clock)
    /\ slept' = Append(slept, Wait(clock))
    /\ logs' = Append(logs, "Sleeping until")
    /\ pc' = "sleeping"
    /\ UNCHANGED <<mode, clock, sysZone, stdin, transcript, message, time_str, tz_str,
                   reset_time, wake_time, stdout, ticks, call, ret, stderr, exit>>

\* "else": no sleep; print {"continue": true}
HookNoSleep ==
    /\ mode = "hook" /\ pc = "wait"
    /\ ~TdPositive(Wait(clock))
    /\ now' = DatetimeNow(reset_time.tz, clock)
    /\ sleep_seconds' = Wait(clock)
    /\ logs' = Append(logs, "Reset time already passed, continuing immediately")
    /\ stdout' = Append(stdout, ContinueTrue)
    /\ pc' = "done"
    /\ exit' = <<0>>
    /\ UNCHANGED <<mode, clock, sysZone, stdin, transcript, message, time_str, tz_str,
                   reset_time, wake_time, slept, ticks, call, ret, stderr>>

\* time.sleep returns, sleep_seconds (or a little more) of real time later;
\* print {"continue": true}
HookWake ==
    /\ mode = "hook" /\ pc = "sleeping"
    /\ \E extra \in SleepOvershoot :
          clock' = ClockAdd(ClockAdd(clock, sleep_seconds), TimeDelta(extra, 0))
    /\ logs' = Append(logs, "Waking up - resuming Claude")
    /\ stdout' = Append(stdout, ContinueTrue)
    /\ pc' = "done"
    /\ exit' = <<0>>
    /\ UNCHANGED <<mode, sysZone, stdin, transcript, message, time_str, tz_str,
                   reset_time, wake_time, now, sleep_seconds, slept, ticks, call, ret, stderr>>

\* an interrupt signal during the sleep: KeyboardInterrupt is no Exception, the
\* handler does not catch it and the process ends without printing, with the
\* status of a process ended by the interrupt signal
HookInterrupt ==
    /\ mode = "hook" /\ pc = "sleeping"
    /\ pc' = "killed"
    /\ stderr' = Append(stderr, "Traceback (most recent call last):")
    /\ exit' = <<130>>
    /\ UNCHANGED <<mode, clock, sysZone, stdin, transcript, message, time_str, tz_str,
                   reset_time, wake_time, now, sleep_seconds, slept, stdout, logs, ticks,
                   call, ret>>

\* real time passes between the steps of hook_mode
Tick ==
    /\ mode = "hook" /\ pc \in {"resolve", "wait"}
    /\ ticks < MaxTicks
    /\ \E d \in TickSeconds : clock' = ClockAdd(clock, TimeDelta(d, 0))
    /\ ticks' = ticks + 1
    /\ UNCHANGED <<mode, pc, sysZone, stdin, transcript, message, time_str, tz_str,
                   reset_time, wake_time, now, sleep_seconds, slept, stdout, logs,
                   call, ret, stderr, exit>>

Next ==
    \/ HookCrash
    \/ HookRead
    \/ HookNotRateLimit
    \/ HookNoResetTime
    \/ HookExtract
    \/ HookResolve
    \/ HookResolveError
    \/ HookSleep
    \/ HookNoSleep
    \/ HookWake
    \/ HookInterrupt
    \/ Tick

Spec == Init /\ [][Next]_vars


----------------------------------------------------------------------------
(* Direct calls of the parsers, as the tests and manual mode make them     *)

\* how a token was written: a clock time (hour, minute or -1 for none,
\* meridiem), a duration (whole part, fraction digits and their number,
\* seconds per unit) or text that is neither
ClockParts(h, m, mer) ==
    [kind |-> "clock", hour |-> h, minute |-> m, mer |-> mer,
     whole |-> 0, frac |-> 0, digits |-> 0, mult |-> 0]
DurationParts(w, f, k, mult) ==
    [kind |-> "duration", hour |-> 0, minute |-> 0, mer |-> <<>>,
     whole |-> w, frac |-> f, digits |-> k, mult |-> mult]
OtherParts == [kind |-> "other", hour |-> 0, minute |-> 0, mer |-> <<>>,
               whole |-> 0, frac |-> 0, digits |-> 0, mult |-> 0]

Token(text, parts) == [text |-> text, parts |-> parts]

\* the minutes written in clock-time tokens: none (-1), in range and out of range
TokenMinutes == {0 - 1, 0, 30, 59, 60, 75}

\* <hour>[:<minute>]<am|pm> for every hour up to MaxHour
PlainClockTokens ==
    {Token(ToDigits(h) \o (IF m < 0 THEN <<>> ELSE <<":">> \o ToFixedDigits(m, 2)) \o mer,
           ClockParts(h, m, mer)) :
        h \in 0..MaxHour, m \in TokenMinutes, mer \in {<<"a", "m">>, <<"p", "m">>}}

\* clock-time tokens in other letter case and with whitespace
VariantClockTokens ==
    {Token(<<"4", " ", "P", "M">>, ClockParts(4, 0 - 1, <<"p", "m">>)),
     Token(<<" ", "1", "1", ":", "3", "0", " ", "A", "m", " ">>, ClockParts(11, 30, <<"a", "m">>)),
     Token(<<"1", "2", ":", "0", "0", "\t", "p", "m">>, ClockParts(12, 0, <<"p", "m">>)),
     Token(<<"0", "9", ":", "0", "5", "A", "M">>, ClockParts(9, 5, <<"a", "m">>))}

\* texts the clock-time grammar does not accept
NotClockTexts ==
    {<<"n", "o", "t", " ", "a", " ", "t", "i", "m", "e">>, <<>>, <<"p", "m">>, <<"4">>, <<"4", ":", "3", "0">>, <<"1", "6", ":", "0", "0">>, <<"4", ":", "5", "p", "m">>, <<"4", ":", "3", "0", "5", "p", "m">>, <<"1", "2", "3", "a", "m">>,
     <<"4", "p", "m", "x">>, <<"4", ":", "3", "0", "p", "m", "x">>, <<"4", " ", ":", "3", "0", "p", "m">>, <<"4", ":", " ", "3", "0", "p", "m">>, <<"x", "4", "p", "m">>, <<"4", "a">>, <<"4", ":", "p", "m">>, <<":", "3", "0", "p", "m">>,
     <<"4", ".", "3", "0", "p", "m">>, <<"2", "h">>, <<"4", "a", "m", " ", "(", "U", "T", "C", ")">>}

NotClockTokens == {Token(tx, OtherParts) : tx \in NotClockTexts}

ClockTokens == PlainClockTokens \cup VariantClockTokens \cup NotClockTokens

\* the tz arguments of direct calls of parse_time_to_seconds
TzArguments == {None, ZoneInfo(T_UTC).v, ZoneInfo(T_LA).v}

\* the tz_str arguments of direct calls of parse_reset_time
TzStrArguments == {T_UTC, T_LA, T_LA_padded, T_unknown, T_blank, <<>>}

UnitSeconds(unit) ==
    IF unit \in UnitsHours THEN 3600 ELSE IF unit \in UnitsMinutes THEN 60 ELSE 1

\* the fraction parts written in duration tokens: none, or k digits
TokenFractions ==
    {[digits |-> 0, frac |-> 0]}
    \cup {[digits |-> k, frac |-> f] : k \in 1..MaxFracDigits, f \in 0..(Pow10(MaxFracDigits) - 1)}

\* <whole>[.<fraction>]<unit>: every spelling of the units after a whole
\* number, one spelling of each unit after a number with a fraction
PlainDurationTokens ==
    {Token(ToDigits(w) \o unit, DurationParts(w, 0, 0, UnitSeconds(unit))) :
        w \in 0..MaxWhole, unit \in UnitsHours \cup UnitsMinutes \cup UnitsSeconds}
    \cup {Token(ToDigits(w) \o <<".">> \o ToFixedDigits(fr.frac % Pow10(fr.digits), fr.digits) \o unit,
                 DurationParts(w, fr.frac % Pow10(fr.digits), fr.digits, UnitSeconds(unit))) :
            w \in 0..MaxWhole, fr \in TokenFractions \ {[digits |-> 0, frac |-> 0]},
            unit \in {<<"h">>, <<"m", "i", "n">>, <<"s", "e", "c", "o", "n", "d", "s">>}}

\* duration tokens in other letter case and with whitespace
VariantDurationTokens ==
    {Token(<<"2", " ", "H">>, DurationParts(2, 0, 0, 3600)),
     Token(<<" ", "1", ".", "5", " ", "H", "o", "u", "r", "s", " ">>, DurationParts(1, 5, 1, 3600)),
     Token(<<"3", "0", "\t", "M", "I", "N">>, DurationParts(30, 0, 0, 60)),
     Token(<<"4", "5", "s">>, DurationParts(45, 0, 0, 1)),
     Token(<<"0", ".", "5", "m">>, DurationParts(0, 5, 1, 60))}

\* texts the duration grammar does not accept
NotDurationTexts ==
    {<<"i", "n", "v", "a", "l", "i", "d">>, <<"1", "2", "3">>, <<"4", "5", "x">>, <<>>, <<"h">>, <<".", "5", "h">>, <<"2", ".", "h">>, <<"2", ".", ".", "5", "h">>, <<"2", "h", "3">>, <<"2", "h", "h">>,
     <<"1", ".", "5", ".", "2", "h">>, <<"-", "2", "h">>, <<"2", " ", "h", " ", "m">>, <<"1", ",", "5", "h">>, <<"2", "d", "a", "y", "s">>, <<"4", "p", "m">>, <<"1", "e", "3", "s">>, <<"2", ".", "5">>}

NotDurationTokens == {Token(tx, OtherParts) : tx \in NotDurationTexts}

DurationTokens == PlainDurationTokens \cup VariantDurationTokens \cup NotDurationTokens

Call(fn, token, tz, tzs) ==
    [fn |-> fn, arg |-> token.text, parts |-> token.parts, tz |-> tz, tzs |-> tzs]

\* the state before a direct call
InitCall(calls) ==
    /\ mode = "call"
    /\ pc = "call"
    /\ call \in calls
    /\ clock \in Clocks
    /\ sysZone \in SystemZones
    /\ stdin = Input("empty", JStr(<<>>))
    /\ transcript = NoFile
    /\ message = <<>>
    /\ time_str = <<>>
    /\ tz_str = <<>>
    /\ reset_time = NoDatetime
    /\ wake_time = NoDatetime
    /\ now = NoDatetime
    /\ sleep_seconds = TimeDelta(0, 0)
    /\ slept = <<>>
    /\ stdout = <<>>
    /\ logs = <<>>
    /\ ticks = 0
    /\ ret = NoFrame
    /\ stderr = <<>>
    /\ exit = <<>>

Return(frame) ==
    /\ ret' = frame
    /\ logs' = logs \o frame.logged
    /\ pc' = "returned"
    /\ UNCHANGED <<mode, clock, sysZone, stdin, transcript, message, time_str, tz_str,
                   reset_time, wake_time, now, sleep_seconds, slept, stdout, ticks, call, stderr, exit>>

CallParseDuration ==
    /\ mode = "call" /\ pc = "call" /\ call.fn = "parse_duration"
    /\ Return(Frame(parse_duration(call.arg), NoDatetime, NoDatetime, NoDatetime, 0, 0, <<>>))

CallParseTimeToSeconds ==
    /\ mode = "call" /\ pc = "call" /\ call.fn = "parse_time_to_seconds"
    /\ Return(parse_time_to_seconds(call.arg, call.tz, clock, sysZone))

CallParseResetTime ==
    /\ mode = "call" /\ pc = "call" /\ call.fn = "parse_reset_time"
    /\ Return(parse_reset_time(call.arg, call.tzs, clock, sysZone))

\* direct calls of parse_duration
InitDuration ==
    /\ InitCall({Call("parse_duration", tok, None, <<>>) : tok \in DurationTokens})
    /\ clock.s = Utc(165, 12, 0, 0) /\ clock.us = 0 /\ sysZone = "UTC"

NextDuration == CallParseDuration

SpecDuration == InitDuration /\ [][NextDuration]_vars

\* direct calls of the two clock-time parsers
InitTime ==
    InitCall({Call("parse_time_to_seconds", tok, tz, <<>>) : tok \in ClockTokens, tz \in TzArguments}
             \cup {Call("parse_reset_time", tok, None, tzs) : tok \in ClockTokens, tzs \in TzStrArguments})

NextTime ==
    \/ CallParseTimeToSeconds
    \/ CallParseResetTime

SpecTime == InitTime /\ [][NextTime]_vars


\* a duration token written with more digits than MaxIntDigits
LongParts(n) ==
    [kind |-> "long duration", hour |-> 0, minute |-> 0, mer |-> <<>>,
     whole |-> 0, frac |-> 0, digits |-> n, mult |-> 1]

\* the numeral 1 followed by n - 1 zeros
OneAndZeros(n) == [i \in 1..n |-> IF i = 1 THEN "1" ELSE "0"]

\* whole numbers of seconds of 11 digits, and one of DBL_MAX_10_EXP + 2 digits
LongDurationTokens ==
    {Token(<<"1", "2", "3", "4", "5", "6", "7", "8", "9", "0", "1", "s">>, LongParts(11)),
     Token(OneAndZeros(11) \o <<" ", "s", "e", "c", "o", "n", "d", "s">>, LongParts(11)),
     Token(OneAndZeros(DBL_MAX_10_EXP + 2) \o <<"s">>, LongParts(DBL_MAX_10_EXP + 2))}

\* the arguments of parse_duration_or_time: durations with at most one
\* fraction digit, long durations, clock times and texts that are neither
EitherTokens ==
    {tok \in DurationTokens : tok.parts.kind = "duration" /\ tok.parts.digits <= 1}
    \cup LongDurationTokens
    \cup {tok \in ClockTokens : tok.parts.kind = "clock"}
    \cup {Token(tx, OtherParts) : tx \in NotClockTexts \cap NotDurationTexts}

CallParseDurationOrTime ==
    /\ mode = "call" /\ pc = "call" /\ call.fn = "parse_duration_or_time"
    /\ Return(parse_duration_or_time(call.arg, clock, sysZone))

\* direct calls of parse_duration_or_time
InitEither ==
    InitCall({Call("parse_duration_or_time", tok, None, <<>>) : tok \in EitherTokens})

NextEither == CallParseDurationOrTime

SpecEither == InitEither /\ [][NextEither]_vars

----------------------------------------------------------------------------
(* Manual mode: main() with an argument, manual_sleep() step by step        *)

\* datetime.now(): the naive reading of the system zone's wall clock
NaiveNow(zone, c) ==
    [wall |-> c.s + ZoneOffsetAtUtc(zone, c.s), us |-> c.us,
     fold |-> ZoneFoldAtUtc(zone, c.s), tz |-> None]

\* a datetime whose fields the model does not compute
FarDatetime == [t |-> "datetime", v |-> Unmodelled]

\* datetime.now() + timedelta(seconds=v): beyond the year 9999 the sum raises
\* OverflowError, which every int of 13 digits does and none of 11 does
WakeTime(nowdt, v) ==
    IF v.t = "int" THEN PyDatetime(DtAdd(nowdt, v.v))
    ELSE IF v.t = "long" /\ Len(v.digits) >= 13 THEN Raised("OverflowError")
    ELSE IF v.t = "long" /\ Len(v.digits) <= 11 THEN FarDatetime
    ELSE Unmodelled

\* time.sleep(v) raises OverflowError when v seconds do not fit the C clock
\* type (2^63 nanoseconds), which every int of 11 digits or more does not
SleepRaises(v) == v.t = "long" /\ Len(v.digits) >= 11

\* the arguments of manual mode: whole durations, long durations, clock times
\* and texts that are neither
ManualTokens ==
    {tok \in EitherTokens : tok.parts.kind = "duration" => tok.parts.digits = 0}
    \cup {Token(OneAndZeros(13) \o <<"s">>, LongParts(13))}

\* sys.argv[1] and the state of the process before main() runs
InitManual ==
    /\ mode = "manual"
    /\ pc = "start"
    /\ call \in {Call("manual_sleep", tok, None, <<>>) : tok \in ManualTokens}
    /\ clock \in Clocks
    /\ sysZone \in SystemZones
    /\ stdin = Input("empty", JStr(<<>>))
    /\ transcript = NoFile
    /\ message = <<>>
    /\ time_str = <<>>
    /\ tz_str = <<>>
    /\ reset_time = NoDatetime
    /\ wake_time = NoDatetime
    /\ now = NoDatetime
    /\ sleep_seconds = None
    /\ slept = <<>>
    /\ stdout = <<>>
    /\ logs = <<>>
    /\ ticks = 0
    /\ ret = NoFrame
    /\ stderr = <<>>
    /\ exit = <<>>

\* "sleep_seconds = parse_duration_or_time(arg)": the call returns or raises
ManualParse ==
    /\ mode = "manual" /\ pc = "start"
    /\ ret' = parse_duration_or_time(call.arg, clock, sysZone)
    /\ logs' = logs \o ret'.logged
    /\ pc' = "parsed"
    /\ UNCHANGED <<mode, clock, sysZone, stdin, transcript, message, time_str, tz_str,
                   reset_time, wake_time, now, sleep_seconds, slept, stdout, ticks, call,
                   stderr, exit>>

\* parse_duration_or_time raised ValueError: "except ValueError" prints the
\* error to standard error and exits with status 1
ManualParseError ==
    /\ mode = "manual" /\ pc = "parsed"
    /\ ret.result.t = "raise" /\ ret.result.v = "ValueError"
    /\ stderr' = Append(stderr, "Error: {e}")
    /\ exit' = <<1>>
    /\ pc' = "exited"
    /\ UNCHANGED <<mode, clock, sysZone, stdin, transcript, message, time_str, tz_str,
                   reset_time, wake_time, now, sleep_seconds, slept, stdout, logs, ticks,
                   call, ret>>

\* parse_duration_or_time raised OverflowError, or the wake time is beyond the
\* last date: no handler catches it and the run ends with a traceback
ManualStartCrash ==
    /\ mode = "manual" /\ pc = "parsed"
    /\ \/ ret.result = Raised("OverflowError")
       \/ /\ ret.result.t \in {"int", "long"}
          /\ WakeTime(NaiveNow(sysZone, clock), ret.result) = Raised("OverflowError")
    /\ stderr' = Append(stderr, "Traceback (most recent call last):")
    /\ exit' = <<1>>
    /\ pc' = "crashed"
    /\ UNCHANGED <<mode, clock, sysZone, stdin, transcript, message, time_str, tz_str,
                   reset_time, wake_time, now, sleep_seconds, slept, stdout, logs, ticks,
                   call, ret>>

\* the argument parsed and the wake time exists: both are logged and the
\* "Sleeping for" line is printed
ManualAnnounce ==
    /\ mode = "manual" /\ pc = "parsed"
    /\ ret.result.t \in {"int", "long"}
    /\ WakeTime(NaiveNow(sysZone, clock), ret.result).t = "datetime"
    /\ sleep_seconds' = ret.result
    /\ now' = NaiveNow(sysZone, clock)
    /\ wake_time' = WakeTime(NaiveNow(sysZone, clock), ret.result).v
    /\ logs' = logs \o <<"Manual sleep requested", "Sleeping until">>
    /\ stdout' = Append(stdout, "Sleeping for")
    /\ pc' = "sleep"
    /\ UNCHANGED <<mode, clock, sysZone, stdin, transcript, message, time_str, tz_str,
                   reset_time, slept, ticks, call, ret, stderr, exit>>

\* time.sleep(sleep_seconds) raises OverflowError: no handler catches it and the
\* run ends with a traceback
ManualSleepCrash ==
    /\ mode = "manual" /\ pc = "sleep"
    /\ SleepRaises(sleep_seconds)
    /\ stderr' = Append(stderr, "Traceback (most recent call last):")
    /\ exit' = <<1>>
    /\ pc' = "crashed"
    /\ UNCHANGED <<mode, clock, sysZone, stdin, transcript, message, time_str, tz_str,
                   reset_time, wake_time, now, sleep_seconds, slept, stdout, logs, ticks,
                   call, ret>>

\* time.sleep(sleep_seconds) starts
ManualSleep ==
    /\ mode = "manual" /\ pc = "sleep"
    /\ sleep_seconds.t = "int"
    /\ slept' = Append(slept, sleep_seconds)
    /\ pc' = "sleeping"
    /\ UNCHANGED <<mode, clock, sysZone, stdin, transcript, message, time_str, tz_str,
                   reset_time, wake_time, now, sleep_seconds, stdout, logs, ticks,
                   call, ret, stderr, exit>>

\* time.sleep returns, sleep_seconds (or a little more) of real time later: the
\* wake-up is logged and printed, and main() returns
ManualWake ==
    /\ mode = "manual" /\ pc = "sleeping"
    /\ \E extra \in SleepOvershoot :
          clock' = ClockAdd(clock, TimeDelta(sleep_seconds.v + extra, 0))
    /\ logs' = Append(logs, "Waking up - resuming Claude")
    /\ stdout' = Append(stdout, "Awake! Resuming...")
    /\ exit' = <<0>>
    /\ pc' = "done"
    /\ UNCHANGED <<mode, sysZone, stdin, transcript, message, time_str, tz_str,
                   reset_time, wake_time, now, sleep_seconds, slept, ticks, call, ret,
                   stderr>>

\* an interrupt signal during the sleep: "except KeyboardInterrupt" logs it,
\* prints "Sleep interrupted." and exits with status 0
ManualInterrupt ==
    /\ mode = "manual" /\ pc = "sleeping"
    /\ logs' = Append(logs, "Sleep interrupted by user")
    /\ stdout' = Append(stdout, "Sleep interrupted.")
    /\ exit' = <<0>>
    /\ pc' = "interrupted"
    /\ UNCHANGED <<mode, clock, sysZone, stdin, transcript, message, time_str, tz_str,
                   reset_time, wake_time, now, sleep_seconds, slept, ticks, call, ret,
                   stderr>>

NextManual ==
    \/ ManualParse
    \/ ManualParseError
    \/ ManualStartCrash
    \/ ManualAnnounce
    \/ ManualSleepCrash
    \/ ManualSleep
    \/ ManualWake
    \/ ManualInterrupt

SpecManual == InitManual /\ [][NextManual]_vars

----------------------------------------------------------------------------
(* Properties of hook mode                                                 *)

Range(q) == {q[i] : i \in 1..Len(q)}

\* the clock-time tokens of HookTokens whose hour or minute is out of range
OutOfRangeTokens == {<<"2", "5", ":", "0", "0", "p", "m">>, <<"1", "2", ":", "6", "0", "a", "m">>, <<"1", "3", "p", "m">>}

\* the run has computed a reset time and gone on to the wait
Resolved == mode = "hook" /\ pc \in {"wait", "sleeping", "done", "killed"} /\ ret.result.t = "datetime"

\* C1: {"continue": true} is written only after the sleep for the computed wait
\* has finished, and when it is written the real time is at or after the reset
\* instant plus 5 minutes, daylight-saving changes of the target timezone included
C1_ResumeAfterReset ==
    (mode = "hook" /\ ContinueTrue \in Range(stdout)) =>
        /\ pc = "done"
        /\ TdPositive(sleep_seconds) => slept = <<sleep_seconds>>
        /\ ClockGeq(clock, [s |-> UtcSeconds(reset_time) + 5 * 60, us |-> 0])

\* C2: the process sleeps only when the rate-limit predicate is true and a
\* time/timezone pair is found; when the predicate is false, or true with no
\* pair found, {"continue": false} is written and no sleep is started, in the
\* second case after the diagnostic line is logged
C2_SleepOnlyOnNotice ==
    (mode = "hook" /\ pc \notin {"start", "crashed"}) =>
        LET rate == is_rate_limit(message)
            found == SearchTimePattern(message).ok
        IN  /\ (slept # <<>> \/ pc \in {"resolve", "wait", "sleeping", "killed"}) => (rate /\ found)
            /\ (pc = "done" /\ ~rate) => (stdout = <<ContinueFalse>> /\ slept = <<>>)
            /\ (pc = "done" /\ rate /\ ~found) =>
                  /\ stdout = <<ContinueFalse>>
                  /\ slept = <<>>
                  /\ logs[Len(logs)] = "Rate limit detected but no reset time found"

\* a run that found the predicate true and no time/timezone pair has ended
C2_NoPairFound ==
    /\ mode = "hook" /\ pc = "done"
    /\ is_rate_limit(message) /\ ~SearchTimePattern(message).ok
    /\ stdout = <<ContinueFalse>>

\* C3: an error raised while resolving the reset instant (an hour of 24 or more,
\* a minute of 60 or more) becomes the decision {"continue": false}: no sleep is
\* started and {"continue": true} is never written
C3_ErrorGivesNeutral ==
    /\ (mode = "hook" /\ ret.result.t = "raise") =>
          (pc = "done" /\ stdout = <<ContinueFalse>> /\ slept = <<>>)
    /\ (mode = "hook" /\ time_str \in OutOfRangeTokens /\ pc # "resolve") =>
          (pc = "done" /\ ret.result.t = "raise" /\ stdout = <<ContinueFalse>> /\ slept = <<>>)

\* a run whose token has a minute of 60 has ended
C3_ErrorCaught ==
    /\ mode = "hook" /\ pc = "done"
    /\ time_str = <<"1", "2", ":", "6", "0", "a", "m">>
    /\ ret.result = Raised("ValueError")
    /\ stdout = <<ContinueFalse>>

\* C4: for every content of standard input a run of hook mode does not crash
\* and has written exactly one decision when it returns
C4_OneDecision ==
    mode = "hook" =>
        /\ pc # "crashed"
        /\ pc = "done" => Len(stdout) = 1

----------------------------------------------------------------------------
(* Properties of the parsers                                               *)

\* the 24-hour form of the hour h written with meridiem mer
TableHour(h, mer) ==
    IF h = 12 THEN (IF mer = <<"a", "m">> THEN 0 ELSE 12)
    ELSE IF mer = <<"p", "m">> THEN h + 12 ELSE h

\* the minute written, 0 when none is
TableMinute(m) == IF m < 0 THEN 0 ELSE m

\* a direct call of fn has returned or raised
Returned(fn) == mode = "call" /\ pc = "returned" /\ call.fn = fn

\* a direct call of a clock-time parser has resolved its token
ResolvedCall ==
    \/ Returned("parse_time_to_seconds") /\ ret.result.t = "int"
    \/ Returned("parse_reset_time") /\ ret.result.t = "datetime"

\* C5: whenever parse_reset_time returns, the instant returned is strictly
\* later than the now read during the resolution; so is the target computed
\* in parse_time_to_seconds, whose result is a non-negative integer
C5_StrictlyFuture ==
    ResolvedCall =>
        /\ UtcSeconds(ret.now) = clock.s /\ ret.now.us = clock.us
        /\ UtcSeconds(ret.target) > clock.s
        /\ ret.target.wall > ret.now.wall
        /\ Returned("parse_reset_time") => ret.result.v = ret.target
        /\ Returned("parse_time_to_seconds") => ret.result.v >= 0

\* parse_reset_time has resolved a token that reads exactly now
C5_EqualToNow ==
    /\ Returned("parse_reset_time") /\ ret.result.t = "datetime"
    /\ ret.built.wall = ret.now.wall /\ ret.now.us = 0

\* C6 as stated: if today's date at T in Z is an instant at or before now, the
\* resolved instant is 86400 seconds of elapsed time after that construction;
\* if it is after now, the resolved instant is the construction
C6_Exact24Hours ==
    ResolvedCall =>
        IF UtcSeconds(ret.built) <= clock.s
        THEN /\ UtcSeconds(ret.target) = UtcSeconds(ret.built) + 86400
             /\ ret.target.us = 0
        ELSE ret.target = ret.built

\* C6: if today's date at T in Z reads at or before now on the wall clock of Z,
\* the resolved datetime is the same wall-clock time on the next calendar day,
\* which is 86400 seconds of elapsed time later when the UTC offset of Z is the
\* same at both; otherwise the resolved datetime is the construction.  A
\* construction equal to now is rolled forward; nothing is rolled twice.
C6_OneCalendarDay ==
    ResolvedCall =>
        /\ call.parts.kind = "clock" =>
              ret.built.wall = (ret.now.wall \div 86400) * 86400
                                 + TableHour(call.parts.hour, call.parts.mer) * 3600
                                 + TableMinute(call.parts.minute) * 60
        /\ ret.built.us = 0 /\ ret.built.tz = ret.now.tz
        /\ IF ret.built.wall <= ret.now.wall
           THEN /\ ret.target.wall = ret.built.wall + 86400
                /\ ret.target.us = 0 /\ ret.target.tz = ret.built.tz
                /\ UtcOffset(ret.target) = UtcOffset(ret.built) =>
                      UtcSeconds(ret.target) = UtcSeconds(ret.built) + 86400
           ELSE ret.target = ret.built

\* a token rolled over a night in which the clocks of the timezone go back
C6_RolledOverClockChange ==
    /\ ResolvedCall
    /\ ret.target.wall = ret.built.wall + 86400
    /\ UtcSeconds(ret.target) = UtcSeconds(ret.built) + 90000

\* the seconds the duration written as parts stands for: the value times the
\* seconds of its unit, truncated
DurationSeconds(parts) ==
    ((parts.whole * Pow10(parts.digits) + parts.frac) * parts.mult) \div Pow10(parts.digits)

\* C8: parse_duration returns, for a token of the grammar, its value times the
\* seconds of its unit (3600, 60 or 1) truncated to an integer, and the "not a
\* duration" sentinel for every other token
C8_ValueTimesUnit ==
    Returned("parse_duration") =>
        /\ call.parts.kind = "duration" => ret.result = PyInt(DurationSeconds(call.parts))
        /\ call.parts.kind = "other" => ret.result = None

\* C9: both clock-time parsers convert the hour alike: 12am is hour 0, 12pm hour
\* 12, another pm hour h is h + 12, another am hour is unchanged; the minute is
\* the token's or 0; for hours 1..12 the resolved datetime reads the converted
\* hour and minute, with seconds and microseconds 0
C9_TwentyFourHourForm ==
    ((Returned("parse_time_to_seconds") \/ Returned("parse_reset_time")) /\ call.parts.kind = "clock") =>
        /\ ret.hour = TableHour(call.parts.hour, call.parts.mer)
        /\ ret.minute = TableMinute(call.parts.minute)
        /\ (call.parts.hour \in 1..12 /\ call.parts.minute < 60) =>
              /\ ResolvedCall
              /\ \A dt \in {ret.built, ret.target} :
                    /\ (dt.wall % 86400) \div 3600 = TableHour(call.parts.hour, call.parts.mer)
                    /\ (dt.wall % 3600) \div 60 = TableMinute(call.parts.minute)
                    /\ dt.wall % 60 = 0
                    /\ dt.us = 0

\* parse_reset_time has resolved a token of 12 pm
C9_Noon ==
    /\ Returned("parse_reset_time") /\ ret.result.t = "datetime"
    /\ call.parts.kind = "clock" /\ call.parts.hour = 12 /\ call.parts.mer = <<"p", "m">>
    /\ (ret.target.wall % 86400) \div 3600 = 12

\* C10: parse_time_to_seconds returns the "not a time" sentinel, and raises
\* nothing, for a token that is not of the grammar, and raises an error, and
\* returns neither the sentinel nor a number, for a token of the grammar whose
\* converted hour is 24 or more or whose minute is 60 or more
C10_TwoFailures ==
    Returned("parse_time_to_seconds") =>
        /\ call.parts.kind = "other" => ret.result = None
        /\ (/\ call.parts.kind = "clock"
            /\ \/ TableHour(call.parts.hour, call.parts.mer) >= 24
               \/ call.parts.minute >= 60) => ret.result = Raised("ValueError")

\* parse_time_to_seconds has raised for a minute of 60
C10_MinuteSixty ==
    /\ Returned("parse_time_to_seconds")
    /\ call.parts.kind = "clock" /\ call.parts.hour = 4 /\ call.parts.minute = 60
    /\ ret.result.t = "raise"


\* the text w occurs in the text s
Occurs(w, s) == \E i \in 1..(Len(s) - Len(w) + 1) : SubSeq(s, i, i + Len(w) - 1) = w

\* C11: parse_duration_or_time returns the duration's value when the duration
\* grammar matches; otherwise the clock-time value, in the local timezone, when
\* that grammar matches; when neither matches it raises an error whose message
\* has the token and both example formats; it never returns the sentinel and
\* every value returned is a non-negative integer
C11_DurationThenTime ==
    Returned("parse_duration_or_time") =>
        /\ ret.result # None
        /\ ret.result.t = "int" => ret.result.v >= 0
        /\ call.parts.kind \in {"duration", "long duration"} =>
              /\ ret.result.t \in {"int", "long"}
              /\ ret.result = parse_duration(call.arg)
        /\ call.parts.kind = "clock" =>
              /\ ret.result.t \in {"int", "raise"}
              /\ ret = parse_time_to_seconds(call.arg, None, clock, sysZone)
              /\ ret.result.t = "int" =>
                    ret.now.tz = FixedOffset(ZoneOffsetAtUtc(sysZone, clock.s))
        /\ call.parts.kind = "other" =>
              /\ ret.result.t = "raise" /\ ret.result.v = "ValueError"
              /\ Occurs(call.arg, ret.result.msg)
              /\ Occurs(<<"2", "h", ",", " ", "3", "0", "m">>, ret.result.msg)
              /\ Occurs(<<"4", "p", "m", ",", " ", "1", "1", ":", "3", "0", "a", "m">>, ret.result.msg)

\* the timezone texts of direct calls that name no timezone
UnknownTzTexts == {T_unknown, T_blank, <<>>}

\* C12: parse_reset_time does not fail because of the timezone text: for a text
\* that names no known timezone it takes the system's local timezone (the
\* system zone's UTC offset at the time of the call), logs one fallback line and
\* resolves the clock time as for a known timezone: it raises only when it
\* would for a known timezone, and resolves to the instant it would resolve to
\* in the system zone itself whenever that zone keeps its offset until then
C12_UnknownZoneFallsBack ==
    Returned("parse_reset_time") =>
        /\ call.tzs \in {T_UTC, T_LA} => ret.logged = <<>>
        /\ call.tzs \in UnknownTzTexts =>
              /\ ret.logged = <<"DEBUG: ZoneInfo failed">>
              /\ logs = ret.logged
              /\ ret.result.t = parse_reset_time(call.arg, T_UTC, clock, sysZone).result.t
              /\ (/\ call.parts.kind = "clock"
                  /\ TableHour(call.parts.hour, call.parts.mer) < 24
                  /\ call.parts.minute < 60) => ret.result.t = "datetime"
              /\ ret.result.t = "datetime" =>
                    /\ ret.now.tz.kind = "fixed"
                    /\ ret.now.tz.off = ZoneOffsetAtUtc(sysZone, clock.s)
                    /\ ret.result.v.tz = ret.now.tz
                    /\ UtcSeconds(ret.now) = clock.s
                    /\ ZoneOffsetAtUtc(sysZone, UtcSeconds(ret.target)) = ret.now.tz.off =>
                          \E key \in {T_UTC, T_LA} :
                             /\ ZoneInfo(key).v.name = sysZone
                             /\ UtcSeconds(parse_reset_time(call.arg, key, clock, sysZone).target)
                                   = UtcSeconds(ret.target)

\* parse_reset_time has resolved a token for an unknown timezone identifier on
\* a system whose local time is not UTC
C12_FellBack ==
    /\ Returned("parse_reset_time") /\ ret.result.t = "datetime"
    /\ call.tzs = T_unknown
    /\ ret.now.tz.off = 0 - 7 * 3600

\* C13: the timezone text is trimmed and its spaces are replaced by underscores
\* before the lookup: a known identifier written with spaces for underscores,
\* and with spaces around it, resolves to the timezone of the identifier
C13_SpacesForUnderscores ==
    (Returned("parse_reset_time") /\ call.tzs = T_LA_padded) =>
        /\ ret.logged = <<>>
        /\ ret.result.t \in {"datetime", "raise"}
        /\ ret.result.t = "datetime" =>
              /\ ret.now.tz.kind = "zone" /\ ret.now.tz.name = "America/Los_Angeles"
              /\ ret.result.v.tz = ret.now.tz
        /\ ret = parse_reset_time(call.arg, T_LA, clock, sysZone)

\* parse_reset_time has resolved a token for "America/Los Angeles" written
\* with spaces around it
C13_Normalized ==
    /\ Returned("parse_reset_time") /\ ret.result.t = "datetime"
    /\ call.tzs = T_LA_padded
    /\ ret.result.v.tz.name = "America/Los_Angeles"


----------------------------------------------------------------------------
(* Properties of manual mode                                               *)

\* the run of manual mode has ended
ManualEnded == mode = "manual" /\ exit # <<>>

\* the argument failed to parse: an error line on standard error, a non-zero
\* status and no sleep
EndedOnParseError ==
    /\ ret.result.t = "raise" /\ ret.result.v = "ValueError"
    /\ stderr = <<"Error: {e}">>
    /\ exit # <<0>>
    /\ slept = <<>>
    /\ stdout = <<>>

\* the wait was interrupted: the interruption logged, status 0, no "Awake!" line
EndedOnInterrupt ==
    /\ pc = "interrupted"
    /\ logs[Len(logs)] = "Sleep interrupted by user"
    /\ exit = <<0>>
    /\ "Awake! Resuming..." \notin Range(stdout)

\* the wait ran to completion: the wake-up logged and printed after the sleep,
\* status 0
EndedOnCompletion ==
    /\ pc = "done"
    /\ slept = <<sleep_seconds>>
    /\ logs[Len(logs)] = "Waking up - resuming Claude"
    /\ stdout = <<"Sleeping for", "Awake! Resuming...">>
    /\ exit = <<0>>

\* C14: a run of manual mode ends in exactly one of three ways: on a parse
\* failure, with an error line on standard error, a non-zero status and no sleep
\* started; on an interrupted wait, with the interruption logged, status 0 and
\* no "Awake! Resuming..." line; or on a completed wait, with the wake-up logged
\* and printed after the sleep and status 0
C14_ThreeEndings ==
    ManualEnded =>
        \/ EndedOnParseError /\ ~EndedOnInterrupt /\ ~EndedOnCompletion
        \/ ~EndedOnParseError /\ EndedOnInterrupt /\ ~EndedOnCompletion
        \/ ~EndedOnParseError /\ ~EndedOnInterrupt /\ EndedOnCompletion

----------------------------------------------------------------------------
(* Properties of detection and extraction                                  *)

\* the positions a..b-1 of s hold whitespace only, at least `least` of it
Gap(s, a, b, least) == b - a >= least /\ \A k \in a..(b - 1) : s[k] \in Whitespace

\* 'stop', 'and', 'wait', 'for' and then 'limit' or 'rate', whitespace between
StopAndWaitPhrase(s) ==
    \E p1 \in 1..Len(s) : /\ HasAt(s, p1, <<"s", "t", "o", "p">>)
      /\ \E p2 \in (p1 + 5)..Len(s) : /\ HasAt(s, p2, <<"a", "n", "d">>) /\ Gap(s, p1 + 4, p2, 1)
        /\ \E p3 \in (p2 + 4)..Len(s) : /\ HasAt(s, p3, <<"w", "a", "i", "t">>) /\ Gap(s, p2 + 3, p3, 1)
          /\ \E p4 \in (p3 + 5)..Len(s) : /\ HasAt(s, p4, <<"f", "o", "r">>) /\ Gap(s, p3 + 4, p4, 1)
            /\ \E p5 \in (p4 + 4)..Len(s) : /\ Gap(s, p4 + 3, p5, 1)
                                             /\ (HasAt(s, p5, <<"l", "i", "m", "i", "t">>) \/ HasAt(s, p5, <<"r", "a", "t", "e">>))

\* 'rate', any whitespace or none, and 'limit'
RateLimitPhrase(s) ==
    \E p1 \in 1..Len(s) : /\ HasAt(s, p1, <<"r", "a", "t", "e">>)
      /\ \E p2 \in (p1 + 4)..Len(s) : HasAt(s, p2, <<"l", "i", "m", "i", "t">>) /\ Gap(s, p1 + 4, p2, 0)

\* the text has one of the four phrases, in any letter case
HasNoticePhrase(text) ==
    \/ Occurs(<<"h", "i", "t", " ", "y", "o", "u", "r", " ", "l", "i", "m", "i", "t">>, Lower(text))
    \/ Occurs(<<"u", "s", "a", "g", "e", " ", "l", "i", "m", "i", "t">>, Lower(text))
    \/ StopAndWaitPhrase(Lower(text))
    \/ RateLimitPhrase(Lower(text))

\* C15: the rate-limit predicate is true exactly when the combined text has,
\* anywhere and in any letter case, 'hit your limit', 'usage limit', 'stop and
\* wait for' then 'limit' or 'rate' with whitespace between the words, or 'rate'
\* and 'limit' with any or no whitespace between; it is false for every other
\* text, the empty one included
C15_PredicateIsPhrases ==
    [][(mode = "hook" /\ pc = "detect") =>
          /\ ("DEBUG: is_rate_limit = True" \in Range(logs')) <=> HasNoticePhrase(message)
          /\ ("DEBUG: is_rate_limit = False" \in Range(logs')) <=> ~HasNoticePhrase(message)
          /\ ~is_rate_limit(<<>>)]_vars

\* the predicate was true of the phrase written without whitespace, embedded
\* in the stringified input
C15_FiredOnRateLimit ==
    /\ mode = "hook"
    /\ stdin = Input("object", JDict(<<Member(K_last, JStr(<<"r", "a", "t", "e", "l", "i", "m", "i", "t">>))>>))
    /\ "DEBUG: is_rate_limit = True" \in Range(logs)

\* the text msg has, from position p on, a clock time (one or two digits, an
\* optional colon and two digits, am or pm in any letter case, whitespace
\* allowed before it) and then, whitespace allowed between, a parenthesised
\* text without ")"; unless any is TRUE, the clock time is t and the text is z
PairAt(msg, p, any, t, z) ==
    LET s == Lower(msg)
        digits(a, b) == b <= Len(s) /\ \A k \in a..b : IsDigit(s[k])
    IN  \E h \in {p + 1, p + 2} : /\ digits(p, h - 1)
          /\ \E m \in {h, h + 3} : /\ (m = h + 3) => (digits(h + 1, h + 2) /\ s[h] = ":")
            /\ \E q \in m..(Len(s) - 1) : /\ Gap(s, m, q, 0)
                  /\ SubSeq(s, q, q + 1) \in {<<"a", "m">>, <<"p", "m">>}
              /\ \E o \in (q + 2)..(Len(s) - 2) : /\ Gap(s, q + 2, o, 0) /\ s[o] = "("
                /\ \E c \in (o + 2)..Len(s) : /\ s[c] = ")"
                      /\ \A k \in (o + 1)..(c - 1) : s[k] # ")"
                      /\ (any \/ (t = SubSeq(msg, p, q + 1) /\ z = SubSeq(msg, o + 1, c - 1)))

\* the positions of msg where a clock time with a parenthesised text starts
PairStarts(msg) ==
    {p \in 1..Len(msg) : IsDigit(msg[p]) /\ PairAt(msg, p, TRUE, <<>>, <<>>)}

\* t and z are the clock time and the text of the leftmost pair of msg
FirstPairIs(msg, t, z) ==
    \E p \in PairStarts(msg) : (\A r \in PairStarts(msg) : p <= r) /\ PairAt(msg, p, FALSE, t, z)

\* the last NUM_LINES lines of the transcript file the input names, none when
\* it names no file that exists
LastLines ==
    IF ~transcript.exists \/ TranscriptPath(LoadInput(stdin).data) # JStr(transcript.path)
    THEN <<>>
    ELSE SubSeq(transcript.lines, Max2(1, Len(transcript.lines) - NUM_LINES + 1),
                Len(transcript.lines))

\* what the k-th of those lines adds to the combined text
LineText(k) == Join(LineParts(LastLines[k]), <<" ">>)

\* C17: extraction returns the clock time and the timezone text of the leftmost
\* pair in the combined text, the timezone text verbatim up to the first closing
\* parenthesis; a pair in the stringified input wins over any pair of the
\* transcript, and among the last 20 transcript lines the pair on the oldest
\* line wins
C17_LeftmostPair ==
    [][(mode = "hook" /\ pc = "detect" /\ is_rate_limit(message)) =>
          LET inputStarts == PairStarts(PyRepr(LoadInput(stdin).data.val))
              lineHits == {k \in 1..Len(LastLines) : PairStarts(LineText(k)) # {}}
          IN  /\ (PairStarts(message) = {}) <=> (pc' = "done")
              /\ (PairStarts(message) # {}) =>
                    pc' = "resolve" /\ FirstPairIs(message, time_str', tz_str')
              /\ (inputStarts # {}) =>
                    \E p \in inputStarts : PairAt(message, p, FALSE, time_str', tz_str')
              /\ (inputStarts = {} /\ lineHits # {}) =>
                    FirstPairIs(LineText(CHOOSE k \in lineHits : \A l \in lineHits : k <= l),
                                time_str', tz_str')]_vars

\* the input's pair was extracted although the transcript has another
C17_InputPairWon ==
    /\ mode = "hook" /\ pc = "resolve"
    /\ stdin = S_input_first.stdin /\ transcript = S_input_first.transcript
    /\ time_str = <<"4", "a", "m">> /\ tz_str = T_UTC

\* C16: every token for which parse_time_to_seconds returns a number of
\* seconds, and every token for which parse_reset_time returns an instant, is
\* written with an hour in 1..12 and, when it has a minute, a minute in 0..59
C16_HourOneToTwelve ==
    ResolvedCall =>
        /\ call.parts.kind = "clock"
        /\ call.parts.hour \in 1..12
        /\ call.parts.minute \in (0 - 1)..59

\* C18: every clock time that extraction returns is matched by the pattern
\* parse_reset_time applies to it (the one with a colon when the token has a
\* colon, the plain one otherwise), so the match result is never None, and
\* parse_reset_time raises on it only for an hour of 24 or more or a minute of
\* 60 or more
C18_ExtractedTokenResolves ==
    (mode = "hook" /\ time_str # <<>>) =>
        /\ IF HasColon(time_str)
           THEN MatchColonTime(Strip(Lower(time_str)), FALSE).ok
           ELSE MatchPlainTime(Strip(Lower(time_str)), FALSE).ok
        /\ (ret # NoFrame) =>
              /\ ret.result.t \in {"datetime", "raise"}
              /\ ret.result.t = "raise" =>
                    /\ ret.result = Raised("ValueError")
                    /\ ret.hour >= 24 \/ ret.minute >= 60

\* a clock time written with whitespace and capitals was extracted and resolved
C18_SpacedTokenResolved ==
    /\ mode = "hook"
    /\ time_str = <<"4", "\t", "P", "M">>
    /\ ret.result.t = "datetime"
    /\ ret.hour = 16


============================================================================
